---- MODULE Spec2Model ----
(***************************************************************************)
(* A model of AnyNode's extraction-and-publish pipeline:                   *)
(*   - the resumable downloader      (src/src/utils/file.rs)               *)
(*   - the extraction scheduler      (src/src/services/extraction.rs)      *)
(*   - the publish pipeline          (src/src/services/locality_upload.rs) *)
(* Each component has a specification of its own (SpecDownload,            *)
(* SpecExtract, SpecPublish); the variables of the other components stay   *)
(* at their initial values.  SpecDownloadFair adds the fairness of a call, *)
(* SpecCrash the termination of the process and a later call, SpecQueue    *)
(* drives the UploadQueue alone, and SpecPipeline runs the extraction and  *)
(* then the publish pipeline over the same output tree.                    *)
(***************************************************************************)
EXTENDS Integers, Sequences, FiniteSets, TLC

VARIABLES
    \* ---- resumable downloader
    server,        \* what kind of HTTP server answers: [range, length]
    temp,          \* the <destination>.part file
    destination,   \* the file at the destination path
    dpc,           \* position of download_file_with_progress
    attempt,       \* loop variable of the retry loop
    existing_size, \* download_attempt: size of the temp file at its start
    req_range,     \* download_attempt: the Range header sent (0: none)
    start_byte,    \* download_attempt: offset the body is written from
    total_size,    \* download_attempt: expected total (0: unknown)
    downloaded,    \* download_attempt: start_byte plus the bytes received
    stream,        \* bytes the response stream still delivers before it ends
    attempts,      \* download_attempt calls made by the current call (call log)
    sleeps,        \* retry delays the current call has waited (call log)
    dest0,         \* the destination file as it was when the call started
    calls,         \* number of the download call (a crash ends a call)
    faulty,        \* the transport has failed during the current call
    \* ---- the output tree, shared by extraction and publishing
    disk,          \* the files <output_root>/<cc>/<name>.pmtiles
    \* ---- extraction scheduler
    planet,        \* config.planet_pmtiles_location: unset, missing, local, remote
    maxConc,       \* config.max_concurrent_extractions
    xpc,           \* position of extract_localities
    country_codes, \* the country codes still to process, in order
    cur,           \* the country being processed
    task,          \* state of the spawned task of each region
    permits,       \* free permits of the country's semaphore
    completed_count, \* the country's progress counter
    invoked,       \* regions the extraction tool was launched for (call log)
    preexisting,   \* the output tree as it was before extract_localities ran
    countryResult, \* per country: none, ok (all tasks Ok), failed
    xresult,       \* what extract_localities returned: none, Ok or the error
    outcome,       \* per region: how the subprocess ended and the region the error names (log)
    \* ---- publish pipeline
    mappings,      \* keys (country_code, locality_id) of the rows of locality_cids
    upload_queue,  \* the pending uploads of the UploadQueue
    stats,         \* the UploadStats
    ppc,           \* position of process_all_localities
    ret,           \* where process_upload_queue returns to: scan or final
    dirs,          \* country directories not yet visited
    curdir,        \* the country directory being scanned
    unscanned,     \* files of the current directory not yet visited
    batch,         \* the batch taken from the queue
    results,       \* per item of the batch: wait, ok or fail
    upsertResult,  \* of the current batch: none, ok or failed
    presult,       \* what process_all_localities returned: none, Ok or the error
    run,           \* number of the publish run (one service instance each)
    counted,       \* files counted in total_uploaded in this run (log)
    putCount,      \* per file: content-store puts in this run (call log)
    enqueued,      \* files enqueued in this run (log)
    scannedMapped, \* files found with a mapping row when scanned in this run
    mappedAtStart, \* the mapping keys when this run started
    statsAtTake,   \* the stats when the current batch was taken
    queryFailed,   \* a Catalog or dedup query has failed in this run (log)
    upsertCalls,   \* the row sets of the upsert calls made for the current batch
    putFailed,     \* files whose put failed in this run (log)
    failedPrev,    \* files whose put failed in the run before this one (log)
    rows,          \* the rows of locality_cids: key and the run that wrote the row
    putOk,         \* log: the files whose put succeeded in this run
    lost,          \* log: the files put in a batch whose upsert the store failed
    peer,          \* the state of a second run in progress, while the first one runs
    \* ---- the UploadQueue driven by arbitrary callers
    added,         \* number of add_upload calls made
    addResult,     \* what the last add_upload returned: none, ok or err
    returned,      \* per PendingUpload: how many take_batch calls returned it
    qop,           \* the last operation on the queue: none, add or take
    \* ---- the locks of the publish service
    lpc,           \* position of process_all_localities, lock by lock
    queue_lock,    \* the Mutex of upload_queue is held
    stats_lock,    \* the Mutex of stats is held
    lfiles,        \* files the scan has still to visit
    lqueue,        \* length of the upload queue
    lbatch,        \* length of the batch taken
    lok,           \* number of successful uploads of the batch
    lret,          \* where process_upload_queue returns to: scan or final
    \* ---- one region identifier from the Catalog to the publish scan
    rpc,           \* idle, catalog, named (file written), scanned (name parsed)
    rid,           \* the identifier the Catalog row holds (i64)
    rname,         \* the stem of the output file
    rparsed        \* the result of the parse of the stem

dvars == <<server, temp, destination, dpc, attempt, existing_size, req_range,
           start_byte, total_size, downloaded, stream, attempts, sleeps,
           dest0, calls, faulty>>

xvars == <<planet, maxConc, xpc, country_codes, cur, task, permits,
           completed_count, invoked, preexisting, countryResult, xresult,
           outcome>>

pvars == <<mappings, upload_queue, stats, ppc, ret, dirs, curdir, unscanned,
           batch, results, upsertResult, presult, run, counted, putCount,
           enqueued, scannedMapped, mappedAtStart, statsAtTake, queryFailed,
           upsertCalls,
           putFailed,
           failedPrev,
           rows,
           putOk,
           lost,
           peer>>

qvars == <<added, addResult, returned, qop>>

lvars == <<lpc, queue_lock, stats_lock, lfiles, lqueue, lbatch, lok, lret>>

rvars == <<rpc, rid, rname, rparsed>>

vars == <<dvars, disk, xvars, pvars, qvars, lvars, rvars>>

\* what the actions of one component leave alone
notDownload == <<disk, xvars, pvars, qvars, lvars, rvars>>

notExtract == <<dvars, pvars, qvars, lvars, rvars>>

notPublish == <<dvars, disk, xvars, qvars, lvars, rvars>>

notLocks == <<dvars, disk, xvars, pvars, qvars, rvars>>

notRoundTrip == <<dvars, disk, xvars, pvars, qvars, lvars>>

-----------------------------------------------------------------------------
(* Generic helpers *)

Prefixes(s) == { SubSeq(s, 1, k) : k \in 0..Len(s) }

IsPrefix(p, s) == Len(p) <= Len(s) /\ SubSeq(s, 1, Len(p)) = p

-----------------------------------------------------------------------------
(* Resumable downloader: src/src/utils/file.rs *)

\* Size of the remote file, in bytes (bound of the model).
FileSize == 3

MAX_RETRIES == 5

\* The remote file: byte i carries the value i, so that a file assembled from
\* the wrong offsets differs from it.
RemoteFile == [i \in 1..FileSize |-> i]

NoFile == [exists |-> FALSE, data |-> <<>>]

FileOf(d) == [exists |-> TRUE, data |-> d]

\* lines 91-96: the size of the temp file, 0 when it does not exist
ExistingSize(f) == IF f.exists THEN Len(f.data) ELSE 0

\* lines 99-111: the Range header "bytes=<existing_size>-" is sent only when
\* resuming; 0 stands for a request without a Range header
RangeHeader(existing) == IF existing > 0 THEN existing ELSE 0

HttpError == [status |-> "err", clen |-> -1, crtotal |-> -1, body |-> <<>>]

\* 416 Range Not Satisfiable: the answer of a range-honoring server to
\* "bytes=<n>-" when the file has no byte n
RangeNotSatisfiable == [status |-> "416", clen |-> -1, crtotal |-> -1, body |-> <<>>]

\* The answers the server can give to a request (line 113).  clen is the
\* Content-Length (-1: none), crtotal the total of the Content-Range header
\* (-1: missing or not a number, as in "bytes 2-4/*"), body the bytes the
\* stream delivers before it ends: the transport may end it early.
ServerResponses(srv, range) ==
    {HttpError} \cup
    IF range > 0 /\ srv.range
    THEN IF range < FileSize
         THEN { [status |-> "206",
                 clen |-> IF srv.length THEN FileSize - range ELSE -1,
                 crtotal |-> IF srv.length THEN FileSize ELSE -1,
                 body |-> b] : b \in Prefixes(SubSeq(RemoteFile, range + 1, FileSize)) }
         ELSE {RangeNotSatisfiable}
    ELSE { [status |-> "200",
            clen |-> IF srv.length THEN FileSize ELSE -1,
            crtotal |-> -1,
            body |-> b] : b \in Prefixes(RemoteFile) }

\* response.content_length().unwrap_or(0), lines 136 and 151
ContentLength(resp) == IF resp.clen = -1 THEN 0 ELSE resp.clen

\* lines 126-130: the total parsed from Content-Range, else existing_size
RangeTotal(resp, existing) == IF resp.crtotal = -1 THEN existing ELSE resp.crtotal

\* lines 116-153: (start_byte, total_size) of the attempt, or an HTTP error
AttemptHead(existing, resp) ==
    IF existing > 0
    THEN IF resp.status = "206"
         THEN [ok |-> TRUE, start |-> existing, total |-> RangeTotal(resp, existing)]
         ELSE IF resp.status = "200"
              THEN [ok |-> TRUE, start |-> 0, total |-> ContentLength(resp)]
              ELSE [ok |-> FALSE, start |-> 0, total |-> 0]
    ELSE IF resp.status \in {"200", "206"}
         THEN [ok |-> TRUE, start |-> 0, total |-> ContentLength(resp)]
         ELSE [ok |-> FALSE, start |-> 0, total |-> 0]

OpenTempAlwaysAppend(f, start) == FileOf(f.data)

OpenTempAlwaysCreate(f, start) == FileOf(<<>>)

\* lines 156-164: append to the temp file when resuming, create (truncate)
\* it otherwise
OpenTemp(f, start) == IF start > 0 THEN FileOf(f.data) ELSE FileOf(<<>>)

\* line 187: the completion check of the attempt
Incomplete(total, got) == total > 0 /\ got < total

\* The transport failed the request or ended the body early: an outcome the
\* server did not choose (a 416 is the server's answer, not a fault).
TransportFault(resp, range) ==
    \/ resp.status = "err"
    \/ resp.status = "206" /\ range + Len(resp.body) < FileSize
    \/ resp.status = "200" /\ Len(resp.body) < FileSize

CanRetryOnceMore(a) == a <= MAX_RETRIES

\* line 39: a failed attempt is followed by a delay and a retry
CanRetry(a) == a < MAX_RETRIES

TempAfterFailureDelete(f, a) == NoFile

\* lines 39-48: the temp file after a failed attempt: kept for the retry,
\* removed after the last attempt
TempAfterFailure(f, a) == IF CanRetry(a) THEN f ELSE NoFile

\* lines 91-164 of download_attempt: stat the temp file, send the request,
\* read the status and the headers, open the temp file
BeginAttempt ==
    /\ dpc = "attempt"
    /\ attempts' = attempts + 1
    /\ \E resp \in ServerResponses(server, RangeHeader(ExistingSize(temp))) :
         LET existing == ExistingSize(temp)
             head == AttemptHead(existing, resp)
         IN  /\ existing_size' = existing
             /\ req_range' = RangeHeader(existing)
             /\ faulty' = (faulty \/ TransportFault(resp, RangeHeader(existing)))
             /\ IF head.ok
                THEN /\ start_byte' = head.start
                     /\ total_size' = head.total
                     /\ downloaded' = head.start
                     /\ temp' = OpenTemp(temp, head.start)
                     /\ stream' = resp.body
                     /\ dpc' = "stream"
                ELSE /\ dpc' = "failed"
                     /\ UNCHANGED <<start_byte, total_size, downloaded, temp, stream>>
    /\ UNCHANGED <<server, destination, attempt, sleeps, dest0, calls>>
    /\ UNCHANGED notDownload

\* lines 173-178: one chunk of the body arrives and is written to the file
StreamChunk ==
    /\ dpc = "stream"
    /\ stream # <<>>
    /\ temp' = FileOf(Append(temp.data, Head(stream)))
    /\ downloaded' = downloaded + 1
    /\ stream' = Tail(stream)
    /\ UNCHANGED <<server, destination, dpc, attempt, existing_size, req_range,
                   start_byte, total_size, attempts, sleeps, dest0, calls, faulty>>
    /\ UNCHANGED notDownload

\* line 174 (chunk?): the stream fails; what was written stays in the temp file
StreamError ==
    /\ dpc = "stream"
    /\ dpc' = "failed"
    /\ stream' = <<>>
    /\ faulty' = TRUE
    /\ UNCHANGED <<server, temp, destination, attempt, existing_size, req_range,
                   start_byte, total_size, downloaded, attempts, sleeps, dest0,
                   calls>>
    /\ UNCHANGED notDownload

\* lines 180-195: the stream ended; flush and check the completion
StreamEnd ==
    /\ dpc = "stream"
    /\ stream = <<>>
    /\ dpc' = IF Incomplete(total_size, downloaded) THEN "failed" ELSE "rename"
    /\ UNCHANGED <<server, temp, destination, attempt, existing_size, req_range,
                   start_byte, total_size, downloaded, stream, attempts, sleeps,
                   dest0, calls, faulty>>
    /\ UNCHANGED notDownload

\* lines 33-37: the attempt returned Ok: rename the temp file to destination
Rename ==
    /\ dpc = "rename"
    /\ destination' = temp
    /\ temp' = NoFile
    /\ dpc' = "ok"
    /\ UNCHANGED <<server, attempt, existing_size, req_range, start_byte,
                   total_size, downloaded, stream, attempts, sleeps, dest0,
                   calls, faulty>>
    /\ UNCHANGED notDownload

\* lines 38-50: the attempt returned Err: go on to the delay before the retry,
\* or clean up and return the error after the last attempt
AttemptFailed ==
    /\ dpc = "failed"
    /\ temp' = TempAfterFailure(temp, attempt)
    /\ dpc' = IF CanRetry(attempt) THEN "sleep" ELSE "err"
    /\ UNCHANGED <<server, destination, attempt, existing_size, req_range,
                   start_byte, total_size, downloaded, stream, attempts, sleeps,
                   dest0, calls, faulty>>
    /\ UNCHANGED notDownload

\* line 44, then line 31: the delay is over and the loop goes to the next
\* attempt; lines 54-57 return the error when the loop runs out
Sleep ==
    /\ dpc = "sleep"
    /\ sleeps' = sleeps + 1
    /\ IF attempt + 1 <= MAX_RETRIES
       THEN /\ attempt' = attempt + 1
            /\ dpc' = "attempt"
       ELSE /\ dpc' = "err"
            /\ UNCHANGED attempt
    /\ UNCHANGED <<server, temp, destination, existing_size, req_range,
                   start_byte, total_size, downloaded, stream, attempts, dest0,
                   calls, faulty>>
    /\ UNCHANGED notDownload

\* Number of download calls the model follows (bound of the model).
MaxCalls == 2

\* The process is terminated before the rename has happened: the files stay
\* as they are, everything the call held in memory is gone.
Crash ==
    /\ dpc \in {"attempt", "stream", "failed", "sleep", "rename"}
    /\ calls < MaxCalls
    /\ dpc' = "crashed"
    /\ UNCHANGED <<server, temp, destination, attempt, existing_size, req_range,
                   start_byte, total_size, downloaded, stream, attempts, sleeps,
                   dest0, calls, faulty>>
    /\ UNCHANGED notDownload

\* lines 27-31: a later call with the same url and destination starts
NewCall ==
    /\ dpc = "crashed"
    /\ calls' = calls + 1
    /\ dpc' = "attempt"
    /\ attempt' = 1
    /\ attempts' = 0
    /\ sleeps' = 0
    /\ dest0' = destination
    /\ faulty' = FALSE
    /\ existing_size' = 0
    /\ req_range' = 0
    /\ start_byte' = 0
    /\ total_size' = 0
    /\ downloaded' = 0
    /\ stream' = <<>>
    /\ UNCHANGED <<server, temp, destination>>
    /\ UNCHANGED notDownload

-----------------------------------------------------------------------------
(* File names of the output tree *)

DigitChar == <<"0", "1", "2", "3", "4", "5", "6", "7", "8", "9">>

RECURSIVE Digits(_)
Digits(n) == IF n < 10 THEN <<DigitChar[n + 1]>>
             ELSE Append(Digits(n \div 10), DigitChar[(n % 10) + 1])

FormatIdTagged(id) == <<"r">> \o Digits(id)

\* format!("{}", id) of an i64: the stem of "<id>.pmtiles"
\* (extraction.rs line 88)
FormatId(id) == IF id < 0 THEN <<"-">> \o Digits(-id) ELSE Digits(id)

\* the output file of a region: <output_dir>/<country>/<id>.pmtiles
OutFile(c, id) == [cc |-> c, name |-> FormatId(id)]

-----------------------------------------------------------------------------
(* Extraction scheduler: src/src/services/extraction.rs *)

\* Largest configured number of concurrent extractions (bound of the model).
MaxPermits == 2

Countries == {"AA", "QQ", "ZZ"}

\* The Catalog: the regions of each country (get_country_localities).
Catalog == [c \in Countries |->
              CASE c = "ZZ" -> {1, 2, 3}
                [] c = "AA" -> {7}
                [] OTHER -> {}]

AllRegions == { <<c, r>> : c \in Countries, r \in UNION { Catalog[d] : d \in Countries } }

RegionKeys == { k \in AllRegions : k[2] \in Catalog[k[1]] }

OutputExistsNever(d, c, id) == FALSE

\* output_path.exists(), lines 90 and 174
OutputExists(d, c, id) == OutFile(c, id) \in d

\* lines 171-177: the regions of the country whose output file exists
ExistingCount(d, c) == Cardinality({ r \in Catalog[c] : OutputExists(d, c, r) })

CanAcquireAlways(p) == TRUE

\* line 207: semaphore.acquire() completes only when a permit is free
CanAcquire(p) == p > 0

HasErrorsNever(t, c) == FALSE

\* lines 231-244: some task of the country returned Err
HasErrors(t, c) == \E r \in Catalog[c] : t[<<c, r>>] = "err"

\* line 229: join_all returns when every task of the country has finished
AllJoined(t, c) == \A r \in Catalog[c] : t[<<c, r>>] \in {"ok", "err"}

GetPlanetSourceUnchecked(p) ==
    IF p = "unset" THEN "PlanetLocationNotConfigured" ELSE "Ok"

\* lines 58-80: get_planet_source: the location is unset (lines 59-63), an
\* http:// or https:// URL, taken as it is (lines 66-68), or a local path,
\* which must exist (lines 71-76)
GetPlanetSource(p) ==
    CASE p = "unset" -> "PlanetLocationNotConfigured"
      [] p = "remote" -> "Ok"
      [] p = "missing" -> "PlanetFileNotFound"
      [] p = "local" -> "Ok"

\* lines 58-80 and line 144: get_planet_source fails before anything else
\* when the location is unset or is a local path that does not exist
XStart ==
    /\ xpc = "start"
    /\ IF GetPlanetSource(planet) # "Ok"
       THEN xresult' = GetPlanetSource(planet) /\ xpc' = "done"
       ELSE xresult' = xresult /\ xpc' = "next"
    /\ UNCHANGED <<disk, planet, maxConc, country_codes, cur, task, permits,
                   completed_count, invoked, preexisting, countryResult>>
    /\ UNCHANGED outcome
    /\ UNCHANGED notExtract

\* lines 146-227: one iteration of the loop over the country codes, up to
\* the spawning of the tasks; lines 254: Ok(()) after the last country
XCountry ==
    /\ xpc = "next"
    /\ \/ /\ country_codes = <<>>
          /\ xresult' = "Ok"
          /\ xpc' = "done"
          /\ UNCHANGED <<country_codes, cur, task, permits, completed_count>>
       \/ /\ country_codes # <<>>
          \* line 158: the Catalog query fails
          /\ xresult' = "DatabaseError"
          /\ xpc' = "done"
          /\ cur' = Head(country_codes)
          /\ country_codes' = Tail(country_codes)
          /\ UNCHANGED <<task, permits, completed_count>>
       \/ /\ country_codes # <<>>
          /\ LET c == Head(country_codes)
                 existing_count == ExistingCount(disk, c)
                 remaining_count == Cardinality(Catalog[c]) - existing_count
             IN  /\ cur' = c
                 /\ country_codes' = Tail(country_codes)
                 /\ xresult' = xresult
                 /\ IF Catalog[c] = {} \/ remaining_count = 0
                    THEN \* lines 160-163 and 182-188: continue
                         /\ xpc' = "next"
                         /\ UNCHANGED <<task, permits, completed_count>>
                    ELSE \* lines 195-227: a task is spawned for every region
                         /\ permits' = maxConc
                         /\ completed_count' = existing_count
                         /\ task' = [k \in RegionKeys |->
                                       IF k[1] = c THEN "waiting" ELSE task[k]]
                         /\ xpc' = "join"
    /\ UNCHANGED <<disk, planet, maxConc, invoked, preexisting, countryResult>>
    /\ UNCHANGED outcome
    /\ UNCHANGED notExtract

\* no subprocess has ended for the region
NoOutcome == [tool |-> "none", output |-> FALSE, err |-> -1]

FailedRegionZero(k) == 0

\* ExtractionFailed(locality.id, ..) of lines 117, 122-125 and 133-136: the
\* region the error of extract_locality carries
FailedRegion(k) == k[2]

\* lines 207-211 and 88-117: a task gets a permit and runs extract_locality up to the
\* launch of the subprocess
TStart(k) ==
    /\ xpc = "join"
    /\ task[k] = "waiting"
    /\ CanAcquire(permits)
    /\ \/ \* lines 90-93: the output file exists: Ok without running the tool;
          \* lines 212-221: the counter is incremented; the permit is dropped
          /\ OutputExists(disk, k[1], k[2])
          /\ task' = [task EXCEPT ![k] = "ok"]
          /\ completed_count' = completed_count + 1
          /\ UNCHANGED <<permits, invoked, outcome>>
       \/ \* lines 108-116: the subprocess is launched
          /\ ~OutputExists(disk, k[1], k[2])
          /\ task' = [task EXCEPT ![k] = "tool"]
          /\ permits' = permits - 1
          /\ invoked' = invoked \cup {k}
          /\ UNCHANGED <<completed_count, outcome>>
       \/ \* line 117: the subprocess cannot be launched
          /\ ~OutputExists(disk, k[1], k[2])
          /\ task' = [task EXCEPT ![k] = "err"]
          /\ invoked' = invoked \cup {k}
          /\ outcome' = [outcome EXCEPT ![k] =
                           [tool |-> "nolaunch", output |-> FALSE,
                            err |-> FailedRegion(k)]]
          /\ UNCHANGED <<permits, completed_count>>
    /\ UNCHANGED <<disk, planet, maxConc, xpc, country_codes, cur, preexisting,
                   countryResult, xresult>>
    /\ UNCHANGED notExtract

\* lines 119-137 and 212-223: the subprocess exits; the task returns and
\* drops its permit
TToolExit(k) ==
    /\ xpc = "join"
    /\ task[k] = "tool"
    /\ permits' = permits + 1
    /\ \/ \* exit status zero and the output file exists
          /\ disk' = disk \cup {OutFile(k[1], k[2])}
          /\ task' = [task EXCEPT ![k] = "ok"]
          /\ completed_count' = completed_count + 1
          /\ outcome' = [outcome EXCEPT ![k] =
                           [tool |-> "zero", output |-> TRUE, err |-> -1]]
       \/ \* exit status zero, no output file
          /\ task' = [task EXCEPT ![k] = "err"]
          /\ outcome' = [outcome EXCEPT ![k] =
                           [tool |-> "zero", output |-> FALSE,
                            err |-> FailedRegion(k)]]
          /\ UNCHANGED <<disk, completed_count>>
       \/ \* non-zero exit status; the tool may leave a file behind
          /\ \E left \in BOOLEAN :
               /\ disk' = IF left THEN disk \cup {OutFile(k[1], k[2])} ELSE disk
               /\ outcome' = [outcome EXCEPT ![k] =
                                [tool |-> "nonzero", output |-> left,
                                 err |-> FailedRegion(k)]]
          /\ task' = [task EXCEPT ![k] = "err"]
          /\ UNCHANGED completed_count
    /\ UNCHANGED <<planet, maxConc, xpc, country_codes, cur, invoked, preexisting,
                   countryResult, xresult>>
    /\ UNCHANGED notExtract

\* lines 229-251: all tasks joined; the country failed when a task failed
XJoin ==
    /\ xpc = "join"
    /\ AllJoined(task, cur)
    /\ IF HasErrors(task, cur)
       THEN /\ countryResult' = [countryResult EXCEPT ![cur] = "failed"]
            /\ xresult' = "ExtractionFailed"
            /\ xpc' = "done"
       ELSE /\ countryResult' = [countryResult EXCEPT ![cur] = "ok"]
            /\ xresult' = xresult
            /\ xpc' = "next"
    /\ UNCHANGED <<disk, planet, maxConc, country_codes, cur, task, permits,
                   completed_count, invoked, preexisting>>
    /\ UNCHANGED outcome
    /\ UNCHANGED notExtract

\* runner.rs lines 64-67 at the next start of the program: extract_localities
\* is called again over the output tree the earlier call left; the results
\* of the earlier tasks are gone, outcome keeps the last report on each region
XAgain ==
    /\ xpc = "done"
    /\ xpc' = "start"
    /\ country_codes' \in { <<"ZZ", "AA">>, <<"AA", "QQ", "ZZ">> }
    /\ cur' = "ZZ"
    /\ task' = [k \in RegionKeys |-> "none"]
    /\ permits' = 0
    /\ completed_count' = 0
    /\ invoked' = {}
    /\ preexisting' = disk
    /\ countryResult' = [c \in Countries |-> "none"]
    /\ xresult' = "none"
    /\ UNCHANGED <<disk, planet, maxConc, outcome>>
    /\ UNCHANGED notExtract

-----------------------------------------------------------------------------
(* Publish pipeline: src/src/services/locality_upload.rs *)

\* Batch trigger size and hard capacity of the upload queue, scaled down from
\* UploadQueue::new(10, 100) (bounds of the model).
BatchSize == 2

MaxQueueSize == 4

\* Number of publish runs, one after the other (bound of the model).
MaxRuns == 2

DigitValue(ch) ==
    IF \E i \in 1..10 : DigitChar[i] = ch
    THEN (CHOOSE i \in 1..10 : DigitChar[i] = ch) - 1
    ELSE -1

RECURSIVE ParseDigits(_, _)
ParseDigits(s, acc) ==
    IF s = <<>> THEN acc
    ELSE IF DigitValue(Head(s)) = -1 THEN -1
         ELSE ParseDigits(Tail(s), acc * 10 + DigitValue(Head(s)))

\* filename.parse::<u32>(), lines 119-121: an optional "+", then decimal
\* digits only; -1 stands for the parse error.  The names of the model stay
\* far below 2^32.
ParseU32(s) ==
    IF s = <<>> THEN -1
    ELSE LET body == IF Head(s) = "+" THEN Tail(s) ELSE s
         IN  IF body = <<>> THEN -1 ELSE ParseDigits(body, 0)

CatalogHasAny(id) == TRUE

\* get_locality_by_id(id) finds a row (database.rs lines 138-163)
CatalogHas(id) == \E c \in Countries : id \in Catalog[c]

HasCidMappingNever(m, cc, id) == FALSE

\* has_cid_mapping (database.rs lines 239-265): COUNT(*) > 0 for the key
HasCidMapping(m, cc, id) == <<cc, id>> \in m

InsertMappingsNone(m, ups) == m

\* batch_insert_cid_mappings (database.rs lines 199-236): INSERT OR REPLACE
\* of every tuple in one transaction
InsertMappings(m, ups) == m \cup { <<ups[i].country_code, ups[i].locality_id>> : i \in DOMAIN ups }

\* the first n tuples of a batch
FirstRows(ups, n) == SubSeq(ups, 1, IF n < Len(ups) THEN n ELSE Len(ups))

BatchInsertNoTx(m, ups, failAt) ==
    IF failAt = 0 THEN [ok |-> TRUE, rows |-> InsertMappings(m, ups)]
    ELSE [ok |-> FALSE, rows |-> InsertMappings(m, FirstRows(ups, failAt - 1))]

\* batch_insert_cid_mappings (database.rs lines 199-236) as a transaction:
\* failAt = 0: every execute and the commit succeed; failAt = i: the i-th
\* execute (or, past the last tuple, the commit) fails, the error is returned
\* and the dropped transaction rolls back the tuples executed before
BatchInsert(m, ups, failAt) ==
    IF failAt = 0 THEN [ok |-> TRUE, rows |-> InsertMappings(m, ups)]
    ELSE [ok |-> FALSE, rows |-> m]

\* no second run is in progress
NoRun == [ppc |-> "none"]

\* the key of the row of an uploaded item
RowKey(u) == <<u.country_code, u.locality_id>>

ReplaceRowsKeep(t, ups, w) ==
    t \cup { [key |-> RowKey(ups[i]), run |-> w] : i \in DOMAIN ups }

\* INSERT OR REPLACE of the tuples by the run w into the table t, whose
\* PRIMARY KEY is (country_code, locality_id) (database.rs lines 54, 207-230):
\* the row that has the key of a tuple is replaced by the new one
ReplaceRows(t, ups, w) ==
    { r \in t : \A i \in DOMAIN ups : r.key # RowKey(ups[i]) }
        \cup { [key |-> RowKey(ups[i]), run |-> w] : i \in DOMAIN ups }

\* tokio::fs::metadata(file_path).len() (line 258): the size of a file
FileBytes(f) == Len(f.name) + 1

\* PendingUpload::new (lines 166-170)
Pending(f, id) == [country_code |-> f.cc, locality_id |-> id, file_path |-> f]

QueueAddUnbounded(q, u) == [ok |-> TRUE, queue |-> Append(q, u)]

\* UploadQueue::add_upload: fails, without enqueuing, at the hard capacity
QueueAdd(q, u) ==
    IF Len(q) >= MaxQueueSize THEN [ok |-> FALSE, queue |-> q]
    ELSE [ok |-> TRUE, queue |-> Append(q, u)]

\* UploadQueue::is_full: the queue has reached its batch trigger size
QueueIsFull(q) == Len(q) >= BatchSize

TakeBatchKeep(q) ==
    LET n == IF Len(q) < BatchSize THEN Len(q) ELSE BatchSize
    IN  [batch |-> SubSeq(q, 1, n), queue |-> q]

\* UploadQueue::take_batch: removes and returns the first items, up to the
\* batch trigger size
TakeBatch(q) ==
    LET n == IF Len(q) < BatchSize THEN Len(q) ELSE BatchSize
    IN  [batch |-> SubSeq(q, 1, n), queue |-> SubSeq(q, n + 1, Len(q))]

\* lines 206-217: the uploads of the batch that succeeded, in order
RECURSIVE Successful(_, _)
Successful(b, res) ==
    IF b = <<>> THEN <<>>
    ELSE IF Head(res) = "ok"
         THEN <<Head(b)>> \o Successful(Tail(b), Tail(res))
         ELSE Successful(Tail(b), Tail(res))

FailedCount(res) == Cardinality({ i \in DOMAIN res : res[i] = "fail" })

RECURSIVE SumBytes(_)
SumBytes(ups) == IF ups = <<>> THEN 0
                 ELSE FileBytes(Head(ups).file_path) + SumBytes(Tail(ups))

CountUploadedOnce(st, ups) ==
    [st EXCEPT !.total_uploaded = @ + 1,
               !.total_bytes_uploaded = @ + SumBytes(ups)]

\* the items of a batch whose put failed, in order
RECURSIVE FailedOf(_, _)
FailedOf(b, res) ==
    IF b = <<>> THEN <<>>
    ELSE IF Head(res) = "fail"
         THEN <<Head(b)>> \o FailedOf(Tail(b), Tail(res))
         ELSE FailedOf(Tail(b), Tail(res))

QueueAfterBatchRequeue(q, b, res) == q \o FailedOf(b, res)

\* lines 209-217: a failed upload is logged and counted; the batch was
\* consumed by into_iter (line 200) and nothing goes back to the queue
QueueAfterBatch(q, b, res) == q

\* lines 223-226: increment_uploaded(file_size) for each successful upload
CountUploaded(st, ups) ==
    [st EXCEPT !.total_uploaded = @ + Len(ups),
               !.total_bytes_uploaded = @ + SumBytes(ups)]

CountFailedNone(st, n) == st

\* lines 230-233: increment_failed() failed_count times
CountFailed(st, n) == [st EXCEPT !.total_failed = @ + n]

AfterUpsertIgnoreErr(ok) == "count_ok"

\* line 220: batch_update_cid_mappings(..).await? returns the error of a
\* failed upsert; the stats are updated only after a successful one
AfterUpsert(ok) == IF ok THEN "count_ok" ELSE "done"

NewStats == [total_uploaded |-> 0, total_failed |-> 0, total_bytes_uploaded |-> 0]

DirsOf(d) == { f.cc : f \in d }

\* lines 58-77: the next country directory is opened
PNextDir ==
    /\ ppc = "scan"
    /\ unscanned = {}
    /\ \E d \in dirs :
         /\ curdir' = d
         /\ dirs' = dirs \ {d}
         /\ unscanned' = { f \in disk : f.cc = d }
    /\ UNCHANGED <<mappings, upload_queue, stats, ppc, ret, batch, results,
                   upsertResult, presult, run, counted, putCount, enqueued,
                   scannedMapped, mappedAtStart, statsAtTake>>
    /\ UNCHANGED queryFailed
    /\ UNCHANGED upsertCalls
    /\ UNCHANGED putFailed
    /\ UNCHANGED failedPrev
    /\ UNCHANGED rows
    /\ UNCHANGED putOk
    /\ UNCHANGED lost
    /\ UNCHANGED peer
    /\ UNCHANGED notPublish

AfterEnqueueScan(q) == "scan"

\* lines 180-182: after an enqueue, process_upload_queue is called at once
\* when the queue is full, else the scan goes on
AfterEnqueue(q) == IF QueueIsFull(q) THEN "drain" ELSE "scan"

\* lines 104-146 and 155-185: one file of the directory is visited
PScanFile(f) ==
    /\ ppc = "scan"
    /\ f \in unscanned
    /\ unscanned' = unscanned \ {f}
    /\ LET id == ParseU32(f.name)
       IN  \/ \* lines 119-121: the name is no u32: the error is returned
              /\ id = -1
              /\ presult' = "QueueError"
              /\ ppc' = "done"
              /\ UNCHANGED <<upload_queue, ret, enqueued, scannedMapped, queryFailed>>
           \/ \* lines 136-141: not in the Catalog: skipped
              /\ id # -1
              /\ ~CatalogHas(id)
              /\ UNCHANGED <<upload_queue, ppc, ret, presult, enqueued, scannedMapped,
                             queryFailed>>
           \/ \* lines 142-144: the Catalog query fails: logged, skipped
              /\ id # -1
              /\ queryFailed' = TRUE
              /\ UNCHANGED <<upload_queue, ppc, ret, presult, enqueued, scannedMapped>>
           \/ \* line 161: the dedup query fails: the error is returned
              /\ id # -1
              /\ CatalogHas(id)
              /\ presult' = "DatabaseError"
              /\ ppc' = "done"
              /\ queryFailed' = TRUE
              /\ UNCHANGED <<upload_queue, ret, enqueued, scannedMapped>>
           \/ \* lines 161-164: already uploaded: skipped
              /\ id # -1
              /\ CatalogHas(id)
              /\ HasCidMapping(mappings, f.cc, id)
              /\ scannedMapped' = scannedMapped \cup {f}
              /\ UNCHANGED <<upload_queue, ppc, ret, presult, enqueued, queryFailed>>
           \/ \* lines 166-184: enqueued; a full queue is processed at once
              /\ id # -1
              /\ CatalogHas(id)
              /\ ~HasCidMapping(mappings, f.cc, id)
              /\ LET a == QueueAdd(upload_queue, Pending(f, id))
                 IN  IF a.ok
                     THEN /\ upload_queue' = a.queue
                          /\ enqueued' = enqueued \cup {f}
                          /\ ppc' = AfterEnqueue(a.queue)
                          /\ ret' = IF AfterEnqueue(a.queue) = "drain" THEN "scan"
                                    ELSE ret
                     ELSE UNCHANGED <<upload_queue, enqueued, ppc, ret>>
              /\ UNCHANGED <<presult, scannedMapped, queryFailed>>
    /\ UNCHANGED <<mappings, stats, dirs, curdir, batch, results, upsertResult,
                   run, counted, putCount, mappedAtStart, statsAtTake>>
    /\ UNCHANGED upsertCalls
    /\ UNCHANGED putFailed
    /\ UNCHANGED failedPrev
    /\ UNCHANGED rows
    /\ UNCHANGED putOk
    /\ UNCHANGED lost
    /\ UNCHANGED peer
    /\ UNCHANGED notPublish

AfterScanDone(q) == "done"

\* lines 82-85: when the scan is over, process_upload_queue is called if the
\* queue is not empty
AfterScan(q) == IF q # <<>> THEN "drain" ELSE "done"

\* lines 82-93: the scan is over: the rest of the queue is processed, then Ok
PAfterScan ==
    /\ ppc = "scan"
    /\ unscanned = {}
    /\ dirs = {}
    /\ ppc' = AfterScan(upload_queue)
    /\ IF AfterScan(upload_queue) = "drain"
       THEN ret' = "final" /\ UNCHANGED presult
       ELSE presult' = "Ok" /\ UNCHANGED ret
    /\ UNCHANGED <<mappings, upload_queue, stats, dirs, curdir, unscanned, batch,
                   results, upsertResult, run, counted, putCount, enqueued,
                   scannedMapped, mappedAtStart, statsAtTake>>
    /\ UNCHANGED queryFailed
    /\ UNCHANGED upsertCalls
    /\ UNCHANGED putFailed
    /\ UNCHANGED failedPrev
    /\ UNCHANGED rows
    /\ UNCHANGED putOk
    /\ UNCHANGED lost
    /\ UNCHANGED peer
    /\ UNCHANGED notPublish

\* what follows process_upload_queue: the scan goes on, or lines 87-93
Return(r) == IF r = "scan" THEN "scan" ELSE "done"

AfterTakeUpload(b, r) == "upload"

\* lines 193-204: process_upload_queue returns Ok at once when the batch is
\* empty, else it starts the uploads of the batch
AfterTake(b, r) == IF b = <<>> THEN Return(r) ELSE "upload"

\* lines 188-204: process_upload_queue takes a batch and starts its uploads
PTakeBatch ==
    /\ ppc = "drain"
    /\ LET t == TakeBatch(upload_queue)
       IN  /\ upload_queue' = t.queue
           /\ batch' = t.batch
           /\ results' = [i \in DOMAIN t.batch |-> "wait"]
           /\ upsertResult' = "none"
           /\ upsertCalls' = <<>>
           /\ statsAtTake' = stats
           /\ ppc' = AfterTake(t.batch, ret)
           /\ presult' = IF AfterTake(t.batch, ret) = "done" THEN "Ok" ELSE presult
    /\ UNCHANGED <<mappings, stats, ret, dirs, curdir, unscanned, run, counted,
                   putCount, enqueued, scannedMapped, mappedAtStart>>
    /\ UNCHANGED queryFailed
    /\ UNCHANGED putFailed
    /\ UNCHANGED failedPrev
    /\ UNCHANGED rows
    /\ UNCHANGED putOk
    /\ UNCHANGED lost
    /\ UNCHANGED peer
    /\ UNCHANGED notPublish

\* lines 245-283: upload_single_file of one item of the batch finishes
PUpload(i) ==
    /\ ppc = "upload"
    /\ i \in DOMAIN batch
    /\ results[i] = "wait"
    /\ \/ \* line 265: the put succeeds
          /\ results' = [results EXCEPT ![i] = "ok"]
          /\ putCount' = [putCount EXCEPT ![batch[i].file_path] = @ + 1]
          /\ putOk' = putOk \cup {batch[i].file_path}
          /\ UNCHANGED putFailed
       \/ \* line 265: the put fails
          /\ results' = [results EXCEPT ![i] = "fail"]
          /\ putCount' = [putCount EXCEPT ![batch[i].file_path] = @ + 1]
          /\ putFailed' = putFailed \cup {batch[i].file_path}
          /\ UNCHANGED putOk
    /\ UNCHANGED <<mappings, upload_queue, stats, ppc, ret, dirs, curdir,
                   unscanned, batch, upsertResult, presult, run, counted,
                   enqueued, scannedMapped, mappedAtStart, statsAtTake>>
    /\ UNCHANGED queryFailed
    /\ UNCHANGED upsertCalls
    /\ UNCHANGED failedPrev
    /\ UNCHANGED rows
    /\ UNCHANGED lost
    /\ UNCHANGED peer
    /\ UNCHANGED notPublish

\* lines 204-220: all uploads joined; the successes are upserted in one
\* transaction, which commits or fails as a whole
PUpsert ==
    /\ ppc = "upload"
    /\ \A i \in DOMAIN results : results[i] # "wait"
    /\ LET ups == Successful(batch, results)
       IN  IF ups = <<>>
           THEN /\ ppc' = "count_failed"
                /\ UNCHANGED <<mappings, upsertResult, presult, upsertCalls, rows, lost>>
           ELSE \E failAt \in 0..(Len(ups) + 1) :
                LET r == BatchInsert(mappings, ups, failAt)
                IN  /\ mappings' = r.rows
                    /\ rows' = IF r.ok THEN ReplaceRows(rows, ups, run) ELSE rows
                    /\ lost' = IF failAt # 0
                               THEN lost \cup { ups[i].file_path : i \in DOMAIN ups }
                               ELSE lost
                    /\ upsertCalls' = Append(upsertCalls, InsertMappings({}, ups))
                    /\ upsertResult' = IF r.ok THEN "ok" ELSE "failed"
                    /\ ppc' = AfterUpsert(r.ok)
                    /\ presult' = IF AfterUpsert(r.ok) = "done" THEN "DatabaseError"
                                  ELSE presult
    /\ UNCHANGED <<upload_queue, stats, ret, dirs, curdir, unscanned, batch,
                   results, run, counted, putCount, enqueued, scannedMapped,
                   mappedAtStart, statsAtTake>>
    /\ UNCHANGED queryFailed
    /\ UNCHANGED putFailed
    /\ UNCHANGED failedPrev
    /\ UNCHANGED putOk
    /\ UNCHANGED peer
    /\ UNCHANGED notPublish

\* lines 222-226: under the stats lock, the successes are counted
PCountUploaded ==
    /\ ppc = "count_ok"
    /\ LET ups == Successful(batch, results)
       IN  /\ stats' = CountUploaded(stats, ups)
           /\ counted' = counted \cup { ups[i].file_path : i \in DOMAIN ups }
    /\ ppc' = "count_failed"
    /\ UNCHANGED <<mappings, upload_queue, ret, dirs, curdir, unscanned, batch,
                   results, upsertResult, presult, run, putCount, enqueued,
                   scannedMapped, mappedAtStart, statsAtTake>>
    /\ UNCHANGED queryFailed
    /\ UNCHANGED upsertCalls
    /\ UNCHANGED putFailed
    /\ UNCHANGED failedPrev
    /\ UNCHANGED rows
    /\ UNCHANGED putOk
    /\ UNCHANGED lost
    /\ UNCHANGED peer
    /\ UNCHANGED notPublish

\* lines 229-242: under the stats lock, the failures are counted; Ok(())
PCountFailed ==
    /\ ppc = "count_failed"
    /\ stats' = CountFailed(stats, FailedCount(results))
    /\ upload_queue' = QueueAfterBatch(upload_queue, batch, results)
    /\ ppc' = Return(ret)
    /\ presult' = IF ret = "final" THEN "Ok" ELSE presult
    /\ UNCHANGED <<mappings, ret, dirs, curdir, unscanned, batch,
                   results, upsertResult, run, counted, putCount, enqueued,
                   scannedMapped, mappedAtStart, statsAtTake>>
    /\ UNCHANGED queryFailed
    /\ UNCHANGED upsertCalls
    /\ UNCHANGED putFailed
    /\ UNCHANGED failedPrev
    /\ UNCHANGED rows
    /\ UNCHANGED putOk
    /\ UNCHANGED lost
    /\ UNCHANGED peer
    /\ UNCHANGED notPublish

\* runner.rs lines 74-81: the result of ApplicationRunner::run once
\* process_all_localities has returned: its error through the ?, else Ok
RunResult == IF ppc = "done" THEN presult ELSE "none"

PStartIfExtracted ==
    /\ xresult = "Ok"
    /\ xpc = "done"
    /\ ppc = "idle"
    /\ ppc' = "scan"
    /\ UNCHANGED <<xvars, mappings, upload_queue, stats, ret, dirs, curdir,
                   unscanned, batch, results, upsertResult, presult, run,
                   counted, putCount, enqueued, scannedMapped, mappedAtStart,
                   statsAtTake, queryFailed, upsertCalls, putFailed,
                   failedPrev, rows, putOk, lost, peer>>
    /\ UNCHANGED <<dvars, disk, qvars, lvars, rvars>>

\* runner.rs lines 73-74: extract_localities has returned, Ok or not, its
\* locals (task results, semaphore, counter) are dropped, and
\* process_all_localities is called over the output tree
PStart ==
    /\ xpc = "done"
    /\ ppc = "idle"
    /\ ppc' = "scan"
    /\ dirs' = DirsOf(disk)
    /\ mappedAtStart' = mappings
    /\ task' = [k \in RegionKeys |-> "none"]
    /\ outcome' = [k \in RegionKeys |-> NoOutcome]
    /\ permits' = 0
    /\ completed_count' = 0
    /\ UNCHANGED <<mappings, upload_queue, stats, ret, curdir, unscanned, batch,
                   results, upsertResult, presult, run, counted, putCount,
                   enqueued, scannedMapped, statsAtTake, queryFailed,
                   upsertCalls>>
    /\ UNCHANGED <<planet, maxConc, xpc, country_codes, cur, invoked, preexisting,
                   countryResult, xresult>>
    /\ UNCHANGED putFailed
    /\ UNCHANGED failedPrev
    /\ UNCHANGED rows
    /\ UNCHANGED putOk
    /\ UNCHANGED lost
    /\ UNCHANGED peer
    /\ UNCHANGED <<dvars, disk, qvars, lvars, rvars>>

\* The files a publish run can find on disk.
PublishFiles ==
    { OutFile(k[1], k[2]) : k \in RegionKeys } \cup
    { [cc |-> "AA", name |-> <<"0", "0", "7">>],
      [cc |-> "AA", name |-> <<"9">>],
      [cc |-> "ZZ", name |-> <<"x">>] }

\* A later run of the program: a new service (lines 31-45) over the same
\* output tree and the same dedup store
NextRunStep(prev, r) ==
    /\ ppc = "done"
    /\ run' = r
    /\ ppc' = "scan"
    /\ presult' = "none"
    /\ upload_queue' = <<>>
    /\ stats' = NewStats
    /\ statsAtTake' = NewStats
    /\ ret' = "scan"
    /\ dirs' = DirsOf(disk)
    /\ curdir' = ""
    /\ unscanned' = {}
    /\ batch' = <<>>
    /\ results' = <<>>
    /\ upsertResult' = "none"
    /\ counted' = {}
    /\ putCount' = [f \in PublishFiles |-> 0]
    /\ enqueued' = {}
    /\ scannedMapped' = {}
    /\ mappedAtStart' = mappings
    /\ queryFailed' = FALSE
    /\ upsertCalls' = <<>>
    /\ putFailed' = {}
    /\ failedPrev' = prev
    /\ putOk' = {}
    /\ lost' = {}
    /\ UNCHANGED mappings
    /\ UNCHANGED rows
    /\ UNCHANGED peer
    /\ UNCHANGED notPublish

PNextRun ==
    /\ run < MaxRuns
    /\ NextRunStep(failedPrev, run + 1)

\* The same, keeping the log of the files whose put failed in the run that ended
PRerun ==
    /\ run < MaxRuns
    /\ NextRunStep(putFailed, run + 1)

\* The same, whenever a run has ended; the count of the runs stops at MaxRuns
PRunAgain == NextRunStep(failedPrev, IF run < MaxRuns THEN run + 1 ELSE run)

\* what a process_all_localities call in progress holds: the service built
\* for it (lines 31-45) with its queue and stats, its position, its locals
\* and its result
RunState ==
    [upload_queue |-> upload_queue, stats |-> stats, ppc |-> ppc, ret |-> ret,
     dirs |-> dirs, curdir |-> curdir, unscanned |-> unscanned,
     batch |-> batch, results |-> results, upsertResult |-> upsertResult,
     presult |-> presult, run |-> run, queryFailed |-> queryFailed,
     putOk |-> putOk, lost |-> lost]

\* lines 31-58: the state in which the run r starts
FreshRun(r) ==
    [upload_queue |-> <<>>, stats |-> NewStats, ppc |-> "scan", ret |-> "scan",
     dirs |-> DirsOf(disk), curdir |-> "", unscanned |-> {},
     batch |-> <<>>, results |-> <<>>, upsertResult |-> "none",
     presult |-> "none", run |-> r, queryFailed |-> FALSE,
     putOk |-> {}, lost |-> {}]

\* lines 31-58: while a run is in progress or over, a second one is started
\* over the same output tree and the same dedup store
PSecondRun ==
    /\ peer = NoRun
    /\ ppc # "idle"
    /\ peer' = FreshRun(run + 1)
    /\ UNCHANGED <<mappings, upload_queue, stats, ppc, ret, dirs, curdir,
                   unscanned, batch, results, upsertResult, presult, run,
                   counted, putCount, enqueued, scannedMapped, mappedAtStart,
                   statsAtTake, queryFailed, upsertCalls, putFailed,
                   failedPrev, rows, putOk, lost>>
    /\ UNCHANGED notPublish

\* at an await of the run that is executing (every step of a run ends at
\* one), the other run goes on from where it stopped; the dedup store, the
\* output tree and the logs of the puts are common to both
PSwitch ==
    /\ peer # NoRun
    /\ peer.ppc # "done"
    /\ peer' = RunState
    /\ upload_queue' = peer.upload_queue
    /\ stats' = peer.stats
    /\ ppc' = peer.ppc
    /\ ret' = peer.ret
    /\ dirs' = peer.dirs
    /\ curdir' = peer.curdir
    /\ unscanned' = peer.unscanned
    /\ batch' = peer.batch
    /\ results' = peer.results
    /\ upsertResult' = peer.upsertResult
    /\ presult' = peer.presult
    /\ run' = peer.run
    /\ queryFailed' = peer.queryFailed
    /\ putOk' = peer.putOk
    /\ lost' = peer.lost
    /\ UNCHANGED <<mappings, rows, counted, putCount, enqueued, scannedMapped,
                   mappedAtStart, statsAtTake, upsertCalls, putFailed,
                   failedPrev>>
    /\ UNCHANGED notPublish

\* lines 245-283: the put of a file succeeds
PutSucceeds(f) ==
    \E i \in 1..BatchSize :
        /\ PUpload(i)
        /\ batch[i].file_path = f
        /\ results'[i] = "ok"

\* lines 219-220: the batch upsert succeeds
UpsertSucceeds == PUpsert /\ upsertResult' = "ok"

\* lines 123-161: a file is visited and no Catalog or dedup query fails
ScanSucceeds(f) == PScanFile(f) /\ ~queryFailed'

-----------------------------------------------------------------------------
(* Initial states and specifications *)

(* The UploadQueue under any sequence of add_upload and take_batch calls *)

\* Number of add_upload calls the model follows (bound of the model).
MaxAdds == 8

\* The PendingUpload of the k-th add_upload call
Item(k) == Pending(OutFile("ZZ", k), k)

ItemIds(q) == { q[i].locality_id : i \in DOMAIN q }

\* what the operations of the queue leave alone
notQueue == <<dvars, disk, xvars, lvars, rvars, mappings, stats, ppc, ret, dirs, curdir,
              unscanned, results, upsertResult, presult, run, counted,
              putCount, enqueued, scannedMapped, mappedAtStart, statsAtTake,
              queryFailed, upsertCalls,
           putFailed,
           failedPrev,
           rows,
           putOk,
           lost,
           peer>>

\* lines 172-178: queue.add_upload(pending_upload) under the lock
QAdd ==
    /\ added < MaxAdds
    /\ added' = added + 1
    /\ LET a == QueueAdd(upload_queue, Item(added + 1))
       IN  /\ upload_queue' = a.queue
           /\ addResult' = IF a.ok THEN "ok" ELSE "err"
    /\ qop' = "add"
    /\ UNCHANGED <<batch, returned>>
    /\ UNCHANGED notQueue

\* lines 188-191: queue.take_batch() under the lock
QTakeBatch ==
    /\ LET t == TakeBatch(upload_queue)
       IN  /\ upload_queue' = t.queue
           /\ batch' = t.batch
           /\ returned' = [k \in 1..MaxAdds |->
                 returned[k] + Cardinality({ i \in DOMAIN t.batch : t.batch[i].locality_id = k })]
    /\ qop' = "take"
    /\ UNCHANGED <<added, addResult>>
    /\ UNCHANGED notQueue

IdleQueue ==
    /\ added = 0
    /\ addResult = "none"
    /\ returned = [k \in 1..MaxAdds |-> 0]
    /\ qop = "none"

IdleDownload ==
    /\ server = [range |-> TRUE, length |-> TRUE]
    /\ temp = NoFile
    /\ destination = NoFile
    /\ dpc = "idle"
    /\ attempt = 1
    /\ existing_size = 0
    /\ req_range = 0
    /\ start_byte = 0
    /\ total_size = 0
    /\ downloaded = 0
    /\ stream = <<>>
    /\ attempts = 0
    /\ sleeps = 0
    /\ dest0 = NoFile
    /\ calls = 1
    /\ faulty = FALSE

IdleExtract ==
    /\ planet = "local"
    /\ maxConc = 1
    /\ xpc = "idle"
    /\ country_codes = <<>>
    /\ cur = "ZZ"
    /\ task = [k \in RegionKeys |-> "none"]
    /\ permits = 0
    /\ completed_count = 0
    /\ invoked = {}
    /\ preexisting = {}
    /\ countryResult = [c \in Countries |-> "none"]
    /\ xresult = "none"
    /\ outcome = [k \in RegionKeys |-> NoOutcome]

IdlePublishService ==
    /\ upload_queue = <<>>
    /\ stats = NewStats
    /\ ppc = "idle"
    /\ ret = "scan"
    /\ dirs = {}
    /\ curdir = ""
    /\ unscanned = {}
    /\ batch = <<>>
    /\ results = <<>>
    /\ upsertResult = "none"
    /\ presult = "none"
    /\ run = 1
    /\ counted = {}
    /\ putCount = [f \in PublishFiles |-> 0]
    /\ enqueued = {}
    /\ scannedMapped = {}
    /\ mappedAtStart = {}
    /\ statsAtTake = NewStats
    /\ queryFailed = FALSE
    /\ upsertCalls = <<>>
    /\ putFailed = {}
    /\ failedPrev = {}
    /\ putOk = {}
    /\ lost = {}
    /\ peer = NoRun

IdlePublish ==
    /\ mappings = {}
    /\ rows = {}
    /\ IdlePublishService

-----------------------------------------------------------------------------
(* The locks of the publish service: src/src/services/locality_upload.rs *)

\* Largest number of files of the scan (bound of the model).
MaxLockFiles == 4

HeldAfterConditionKept(held) == held

\* lines 82 and 180: the guard that lock().await gives inside the condition
\* of an if is a temporary of the condition: it is dropped when the condition
\* has been evaluated, before the block of the if runs
HeldAfterCondition(held) == FALSE

\* the positions at which a query, the puts or the upsert are in flight
InFlight == {"catalog", "dedup", "put", "upsert"}

\* the positions at which lock().await of the queue, of the stats, is called
QueueLockCalls == {"lock_add", "lock_full", "lock_empty", "lock_take"}

StatsLockCalls == {"lock_inc_ok", "lock_inc_fail", "lock_final"}

\* the position once the lock is granted
Granted(pc) ==
    CASE pc = "lock_add" -> "add"
      [] pc = "lock_full" -> "full"
      [] pc = "lock_empty" -> "empty"
      [] pc = "lock_take" -> "take"
      [] pc = "lock_inc_ok" -> "inc_ok"
      [] pc = "lock_inc_fail" -> "inc_fail"
      [] pc = "lock_final" -> "final"

\* what follows process_upload_queue: the scan, or lines 87-93
LReturn(r) == IF r = "scan" THEN "scan" ELSE "lock_final"

\* lines 104-126: the next file is visited and the Catalog is queried; lines
\* 82: after the last file the queue is locked for is_empty
LScan ==
    /\ lpc = "scan"
    /\ IF lfiles > 0
       THEN lfiles' = lfiles - 1 /\ lpc' = "catalog"
       ELSE lfiles' = lfiles /\ lpc' = "lock_empty"
    /\ UNCHANGED <<queue_lock, stats_lock, lqueue, lbatch, lok, lret>>
    /\ UNCHANGED notLocks

\* lines 123-146: get_locality_by_id returns
LCatalog ==
    /\ lpc = "catalog"
    /\ \/ lpc' = "dedup"    \* Ok(Some(_)): process_file_for_upload, line 161
       \/ lpc' = "scan"     \* Ok(None) or Err: the file is passed over
    /\ UNCHANGED <<queue_lock, stats_lock, lfiles, lqueue, lbatch, lok, lret>>
    /\ UNCHANGED notLocks

\* lines 161-170: has_cid_mapping returns
LDedup ==
    /\ lpc = "dedup"
    /\ \/ lpc' = "scan"       \* already uploaded
       \/ lpc' = "done"       \* the query failed: the error is returned
       \/ lpc' = "lock_add"   \* line 173
    /\ UNCHANGED <<queue_lock, stats_lock, lfiles, lqueue, lbatch, lok, lret>>
    /\ UNCHANGED notLocks

\* lines 82, 173, 180, 189: upload_queue.lock().await is granted when the
\* Mutex is free
LLockQueue ==
    /\ lpc \in QueueLockCalls
    /\ ~queue_lock
    /\ queue_lock' = TRUE
    /\ lpc' = Granted(lpc)
    /\ UNCHANGED <<stats_lock, lfiles, lqueue, lbatch, lok, lret>>
    /\ UNCHANGED notLocks

\* lines 172-178: add_upload under the lock; the guard is dropped at the end
\* of the block
LAdd ==
    /\ lpc = "add"
    /\ queue_lock' = FALSE
    /\ IF lqueue >= MaxQueueSize
       THEN lqueue' = lqueue /\ lpc' = "scan"
       ELSE lqueue' = lqueue + 1 /\ lpc' = "lock_full"
    /\ UNCHANGED <<stats_lock, lfiles, lbatch, lok, lret>>
    /\ UNCHANGED notLocks

\* lines 180-182: is_full under the lock, then process_upload_queue or back
\* to the scan
LIsFull ==
    /\ lpc = "full"
    /\ queue_lock' = HeldAfterCondition(queue_lock)
    /\ IF lqueue >= BatchSize
       THEN lpc' = "lock_take" /\ lret' = "scan"
       ELSE lpc' = "scan" /\ lret' = lret
    /\ UNCHANGED <<stats_lock, lfiles, lqueue, lbatch, lok>>
    /\ UNCHANGED notLocks

\* lines 82-85: is_empty under the lock, then process_upload_queue or the
\* final statistics
LIsEmpty ==
    /\ lpc = "empty"
    /\ queue_lock' = HeldAfterCondition(queue_lock)
    /\ IF lqueue > 0
       THEN lpc' = "lock_take" /\ lret' = "final"
       ELSE lpc' = "lock_final" /\ lret' = lret
    /\ UNCHANGED <<stats_lock, lfiles, lqueue, lbatch, lok>>
    /\ UNCHANGED notLocks

\* lines 188-204: take_batch under the lock; the guard is dropped at the end
\* of the block; the uploads of the batch are started
LTake ==
    /\ lpc = "take"
    /\ queue_lock' = FALSE
    /\ LET n == IF lqueue < BatchSize THEN lqueue ELSE BatchSize
       IN  /\ lbatch' = n
           /\ lqueue' = lqueue - n
           /\ lpc' = IF n = 0 THEN LReturn(lret) ELSE "put"
    /\ UNCHANGED <<stats_lock, lfiles, lok, lret>>
    /\ UNCHANGED notLocks

\* lines 204-220: join_all returns; the successes are upserted if there are any
LPut ==
    /\ lpc = "put"
    /\ \E k \in 0..lbatch :
         /\ lok' = k
         /\ lpc' = IF k > 0 THEN "upsert" ELSE "lock_inc_fail"
    /\ UNCHANGED <<queue_lock, stats_lock, lfiles, lqueue, lbatch, lret>>
    /\ UNCHANGED notLocks

\* lines 219-223: batch_update_cid_mappings returns
LUpsert ==
    /\ lpc = "upsert"
    /\ \/ lpc' = "lock_inc_ok"
       \/ lpc' = "done"      \* the upsert failed: the error is returned
    /\ UNCHANGED <<queue_lock, stats_lock, lfiles, lqueue, lbatch, lok, lret>>
    /\ UNCHANGED notLocks

\* lines 87, 223, 230: stats.lock().await is granted when the Mutex is free
LLockStats ==
    /\ lpc \in StatsLockCalls
    /\ ~stats_lock
    /\ stats_lock' = TRUE
    /\ lpc' = Granted(lpc)
    /\ UNCHANGED <<queue_lock, lfiles, lqueue, lbatch, lok, lret>>
    /\ UNCHANGED notLocks

\* lines 223-227: increment_uploaded under the lock; the guard is dropped at
\* the end of the if block
LIncOk ==
    /\ lpc = "inc_ok"
    /\ stats_lock' = FALSE
    /\ lpc' = "lock_inc_fail"
    /\ UNCHANGED <<queue_lock, lfiles, lqueue, lbatch, lok, lret>>
    /\ UNCHANGED notLocks

\* lines 229-242: increment_failed under the lock; the guard is dropped at
\* the end of the block; Ok(())
LIncFail ==
    /\ lpc = "inc_fail"
    /\ stats_lock' = FALSE
    /\ lpc' = LReturn(lret)
    /\ UNCHANGED <<queue_lock, lfiles, lqueue, lbatch, lok, lret>>
    /\ UNCHANGED notLocks

\* lines 87-93: the statistics are logged under the lock; the guard is
\* dropped when the function returns Ok(())
LFinal ==
    /\ lpc = "final"
    /\ stats_lock' = FALSE
    /\ lpc' = "done"
    /\ UNCHANGED <<queue_lock, lfiles, lqueue, lbatch, lok, lret>>
    /\ UNCHANGED notLocks

IdleLocks ==
    /\ lpc = "idle"
    /\ queue_lock = FALSE
    /\ stats_lock = FALSE
    /\ lfiles = 0
    /\ lqueue = 0
    /\ lbatch = 0
    /\ lok = 0
    /\ lret = "scan"

-----------------------------------------------------------------------------
(* A region identifier from the Catalog row to the file name and back:
   src/src/types/locality.rs, src/src/services/extraction.rs line 88,
   src/src/services/locality_upload.rs lines 114-126.
   The identifiers of an i64 do not all fit the integers of the model, so
   here an integer is a sign and the sequence of its decimal digits. *)

\* Largest magnitude of the small identifiers drawn (bound of the model).
MaxSampleId == 20

RECURSIVE DigitVals(_)
DigitVals(n) == IF n < 10 THEN <<n>> ELSE Append(DigitVals(n \div 10), n % 10)

\* the i64 of a small integer
I64(n) == [neg |-> n < 0, mag |-> DigitVals(IF n < 0 THEN -n ELSE n)]

\* u32::MAX = 4294967295, i64::MAX = 9223372036854775807 and the magnitude
\* of i64::MIN = -9223372036854775808
U32_MAX == <<4, 2, 9, 4, 9, 6, 7, 2, 9, 5>>

I64_MAX == <<9, 2, 2, 3, 3, 7, 2, 0, 3, 6, 8, 5, 4, 7, 7, 5, 8, 0, 7>>

I64_MIN == <<9, 2, 2, 3, 3, 7, 2, 0, 3, 6, 8, 5, 4, 7, 7, 5, 8, 0, 8>>

\* locality.rs line 7: pub id: i64, read from the INTEGER column id of the
\* Catalog: the small identifiers and those around the limits of u32 and i64
SampleIds ==
    { I64(n) : n \in (-MaxSampleId)..MaxSampleId } \cup
    { [neg |-> FALSE, mag |-> <<2, 1, 4, 7, 4, 8, 3, 6, 4, 7>>],
      [neg |-> FALSE, mag |-> <<2, 1, 4, 7, 4, 8, 3, 6, 4, 8>>],
      [neg |-> FALSE, mag |-> U32_MAX],
      [neg |-> FALSE, mag |-> <<4, 2, 9, 4, 9, 6, 7, 2, 9, 6>>],
      [neg |-> FALSE, mag |-> <<1, 0, 0, 0, 0, 0, 0, 0, 0, 0, 0>>],
      [neg |-> FALSE, mag |-> I64_MAX],
      [neg |-> TRUE, mag |-> I64_MIN] }

\* extraction.rs line 88: format!("{}", locality.id) of an i64: a "-" for a
\* negative value, then the decimal digits
FormatI64(id) ==
    (IF id.neg THEN <<"-">> ELSE <<>>) \o
    [i \in 1..Len(id.mag) |-> DigitChar[id.mag[i] + 1]]

RECURSIVE StripZeros(_)
StripZeros(m) == IF Len(m) > 1 /\ Head(m) = 0 THEN StripZeros(Tail(m)) ELSE m

\* a <= b for two magnitudes without leading zeros
MagLeq(a, b) ==
    \/ Len(a) < Len(b)
    \/ /\ Len(a) = Len(b)
       /\ \/ a = b
          \/ \E i \in 1..Len(a) :
                /\ a[i] < b[i]
                /\ \A j \in 1..(i - 1) : a[j] = b[j]

ParseError == [ok |-> FALSE, mag |-> <<>>]

\* locality_upload.rs lines 119-121: filename.parse::<u32>(): an optional
\* "+", then one decimal digit or more and nothing else, the value at most
\* u32::MAX; anything else is the error that becomes QueueError
ParseU32Wide(s) ==
    LET body == IF s # <<>> /\ Head(s) = "+" THEN Tail(s) ELSE s
        vals == [i \in 1..Len(body) |-> DigitValue(body[i])]
    IN  IF body = <<>> \/ \E i \in 1..Len(vals) : vals[i] = -1
        THEN ParseError
        ELSE IF MagLeq(StripZeros(vals), U32_MAX)
             THEN [ok |-> TRUE, mag |-> StripZeros(vals)]
             ELSE ParseError

\* locality_upload.rs line 125: locality_id as i64
AsI64(p) == [neg |-> FALSE, mag |-> p.mag]

\* extraction.rs line 88: the output file of the region is named after the id
RName ==
    /\ rpc = "catalog"
    /\ rname' = FormatI64(rid)
    /\ rpc' = "named"
    /\ UNCHANGED <<rid, rparsed>>
    /\ UNCHANGED notRoundTrip

\* locality_upload.rs lines 114-121: the scan takes the stem of the file and
\* parses it
RScan ==
    /\ rpc = "named"
    /\ rparsed' = ParseU32Wide(rname)
    /\ rpc' = "scanned"
    /\ UNCHANGED <<rid, rname>>
    /\ UNCHANGED notRoundTrip

IdleRoundTrip ==
    /\ rpc = "idle"
    /\ rid = I64(0)
    /\ rname = <<>>
    /\ rparsed = ParseError

\* A file an earlier run left at the destination path.
OldFile == FileOf(<<0>>)

\* A download call; the temp file may be left by an earlier, interrupted call.
InitDownload ==
    /\ server \in [range : BOOLEAN, length : BOOLEAN]
    /\ temp \in {NoFile} \cup { FileOf(p) : p \in Prefixes(RemoteFile) }
    /\ destination \in {NoFile, OldFile}
    /\ dest0 = destination
    /\ attempts = 0
    /\ sleeps = 0
    /\ calls = 1
    /\ faulty = FALSE
    /\ dpc = "attempt"
    /\ attempt = 1
    /\ existing_size = 0
    /\ req_range = 0
    /\ start_byte = 0
    /\ total_size = 0
    /\ downloaded = 0
    /\ stream = <<>>
    /\ disk = {}
    /\ IdleExtract
    /\ IdlePublish
    /\ IdleQueue
    /\ IdleRoundTrip
    /\ IdleLocks

NextDownload ==
    \/ BeginAttempt
    \/ StreamChunk
    \/ StreamError
    \/ StreamEnd
    \/ Rename
    \/ AttemptFailed
    \/ Sleep

SpecDownload == InitDownload /\ [][NextDownload]_vars

\* Every step of a call is taken in the end: each await of the call returns
\* (the request, each chunk of the stream, the delay), and nothing else runs.
SpecDownloadFair == SpecDownload /\ WF_vars(NextDownload)

\* Download calls that may be cut short by the termination of the process
NextCrash ==
    \/ NextDownload
    \/ Crash
    \/ NewCall

SpecCrash == InitDownload /\ [][NextCrash]_vars

\* An extract_localities call; some output files may exist already.
InitExtract ==
    /\ IdleDownload
    /\ IdlePublish
    /\ IdleQueue
    /\ IdleRoundTrip
    /\ IdleLocks
    /\ disk \in SUBSET { OutFile(k[1], k[2]) : k \in RegionKeys }
    /\ preexisting = disk
    /\ planet \in {"unset", "missing", "local", "remote"}
    /\ maxConc \in 0..MaxPermits
    /\ xpc = "start"
    /\ country_codes \in { <<"ZZ", "AA">>, <<"AA", "QQ", "ZZ">> }
    /\ cur = "ZZ"
    /\ task = [k \in RegionKeys |-> "none"]
    /\ permits = 0
    /\ completed_count = 0
    /\ invoked = {}
    /\ countryResult = [c \in Countries |-> "none"]
    /\ xresult = "none"
    /\ outcome = [k \in RegionKeys |-> NoOutcome]

NextExtract ==
    \/ XStart
    \/ XCountry
    \/ \E k \in RegionKeys : TStart(k)
    \/ \E k \in RegionKeys : TToolExit(k)
    \/ XJoin

SpecExtract == InitExtract /\ [][NextExtract]_vars

\* extract_localities called again and again over the same output tree
NextExtractAgain ==
    \/ NextExtract
    \/ XAgain

SpecExtractAgain == InitExtract /\ [][NextExtractAgain]_vars

\* Publish runs over an output tree, starting from an empty dedup store.
InitPublish ==
    /\ IdleDownload
    /\ IdleExtract
    /\ IdleQueue
    /\ IdleRoundTrip
    /\ IdleLocks
    /\ disk \in SUBSET PublishFiles
    /\ mappings = {}
    /\ upload_queue = <<>>
    /\ stats = NewStats
    /\ ppc = "scan"
    /\ ret = "scan"
    /\ dirs = DirsOf(disk)
    /\ curdir = ""
    /\ unscanned = {}
    /\ batch = <<>>
    /\ results = <<>>
    /\ upsertResult = "none"
    /\ presult = "none"
    /\ run = 1
    /\ counted = {}
    /\ putCount = [f \in PublishFiles |-> 0]
    /\ enqueued = {}
    /\ scannedMapped = {}
    /\ mappedAtStart = {}
    /\ statsAtTake = NewStats
    /\ queryFailed = FALSE
    /\ upsertCalls = <<>>
    /\ putFailed = {}
    /\ failedPrev = {}
    /\ rows = {}
    /\ putOk = {}
    /\ lost = {}
    /\ peer = NoRun

\* the steps of one process_all_localities call
PublishRun ==
    \/ PNextDir
    \/ \E f \in PublishFiles : PScanFile(f)
    \/ PAfterScan
    \/ PTakeBatch
    \/ \E i \in 1..BatchSize : PUpload(i)
    \/ PUpsert
    \/ PCountUploaded
    \/ PCountFailed

NextPublish ==
    \/ PublishRun
    \/ PNextRun

SpecPublish == InitPublish /\ [][NextPublish]_vars

\* Largest number of files of the output tree in the runs followed from one
\* run to the next (bound of the model).
MaxRerunFiles == 3

\* Publish runs one after the other over a small, unchanged output tree
InitRerun ==
    /\ InitPublish
    /\ Cardinality(disk) <= MaxRerunFiles

NextRerun ==
    \/ PublishRun
    \/ PRerun

SpecRerun == InitRerun /\ [][NextRerun]_vars

\* Largest number of files of the output tree in the runs repeated for ever
\* (bound of the model).
MaxConvergeFiles == 2

\* Publish runs repeated for ever over a small, unchanged output tree
InitConverge ==
    /\ InitPublish
    /\ Cardinality(disk) <= MaxConvergeFiles

NextConverge ==
    \/ PublishRun
    \/ PRunAgain

\* Every step of a run is taken in the end and the program is run again after
\* each run; every put, every upsert and every query that is tried again and
\* again succeeds in the end.
SpecConverge ==
    /\ InitConverge
    /\ [][NextConverge]_vars
    /\ WF_vars(NextConverge)
    /\ SF_vars(UpsertSucceeds)
    /\ \A f \in PublishFiles : SF_vars(PutSucceeds(f)) /\ SF_vars(ScanSucceeds(f))

\* Largest number of files of the output tree of two runs at once (bound of
\* the model).
MaxSharedFiles == 1

\* Two publish runs at once over a small output tree and one dedup store
InitTwoRuns ==
    /\ InitPublish
    /\ Cardinality(disk) <= MaxSharedFiles

NextTwoRuns ==
    \/ PublishRun
    \/ PSecondRun
    \/ PSwitch

SpecTwoRuns == InitTwoRuns /\ [][NextTwoRuns]_vars

\* Files of the output tree that no extraction wrote
ForeignFiles == { [cc |-> "AA", name |-> <<"9">>], [cc |-> "ZZ", name |-> <<"x">>] }

\* A run of the program, runner.rs lines 48-74: extract_localities over the
\* countries, then process_all_localities over the output tree
InitPipeline ==
    /\ IdleDownload
    /\ IdleQueue
    /\ IdleRoundTrip
    /\ IdleLocks
    /\ IdlePublishService
    /\ mappings \in { {}, {<<"ZZ", 1>>} }
    /\ rows = { [key |-> k, run |-> 0] : k \in mappings }
    /\ \E own \in SUBSET { OutFile(k[1], k[2]) : k \in RegionKeys } :
       \E foreign \in {{}, ForeignFiles} :
          disk = own \cup foreign
    /\ preexisting = disk
    /\ planet = "local"
    /\ maxConc = MaxPermits
    /\ xpc = "start"
    /\ country_codes = <<"ZZ", "AA">>
    /\ cur = "ZZ"
    /\ task = [k \in RegionKeys |-> "none"]
    /\ permits = 0
    /\ completed_count = 0
    /\ invoked = {}
    /\ countryResult = [c \in Countries |-> "none"]
    /\ xresult = "none"
    /\ outcome = [k \in RegionKeys |-> NoOutcome]

NextPipeline ==
    \/ NextExtract
    \/ PStart
    \/ PublishRun

SpecPipeline == InitPipeline /\ [][NextPipeline]_vars

\* Every step of the run is taken in the end: each await of the runner, of
\* the extraction tasks and of the publish run returns.
SpecPipelineFair == SpecPipeline /\ WF_vars(NextPipeline)

\* A new UploadQueue, line 41
InitQueue ==
    /\ IdleDownload
    /\ IdleExtract
    /\ IdlePublish
    /\ IdleQueue
    /\ IdleRoundTrip
    /\ IdleLocks
    /\ disk = {}

\* A publish run seen lock by lock, over any number of files
InitLocks ==
    /\ IdleDownload
    /\ IdleExtract
    /\ IdlePublish
    /\ IdleQueue
    /\ IdleRoundTrip
    /\ disk = {}
    /\ lpc = "scan"
    /\ queue_lock = FALSE
    /\ stats_lock = FALSE
    /\ lfiles \in 0..MaxLockFiles
    /\ lqueue = 0
    /\ lbatch = 0
    /\ lok = 0
    /\ lret = "scan"

\* A region of the Catalog, extracted and then scanned by the publish run
InitRoundTrip ==
    /\ IdleDownload
    /\ IdleExtract
    /\ IdlePublish
    /\ IdleQueue
    /\ IdleLocks
    /\ disk = {}
    /\ rpc = "catalog"
    /\ rid \in SampleIds
    /\ rname = <<>>
    /\ rparsed = ParseError

NextRoundTrip ==
    \/ RName
    \/ RScan

SpecRoundTrip == InitRoundTrip /\ [][NextRoundTrip]_vars

NextLocks ==
    \/ LScan
    \/ LCatalog
    \/ LDedup
    \/ LLockQueue
    \/ LAdd
    \/ LIsFull
    \/ LIsEmpty
    \/ LTake
    \/ LPut
    \/ LUpsert
    \/ LLockStats
    \/ LIncOk
    \/ LIncFail
    \/ LFinal

SpecLocks == InitLocks /\ [][NextLocks]_vars

NextQueue ==
    \/ QAdd
    \/ QTakeBatch

SpecQueue == InitQueue /\ [][NextQueue]_vars

-----------------------------------------------------------------------------
(* Properties of the publish pipeline, checked under SpecPublish *)

\* the dedup key of each file: its country directory and its parsed name
KeyOf == [f \in PublishFiles |-> <<f.cc, ParseU32(f.name)>>]

FileKey(f) == KeyOf[f]

NoPuts == \A f \in PublishFiles : putCount[f] = 0

\* the files a scan can enqueue: a name that parses, a region of the Catalog
ValidNames == { f \in PublishFiles : KeyOf[f][2] # -1 /\ CatalogHas(KeyOf[f][2]) }

ValidFiles == disk \cap ValidNames

\* C1: every upload counted in total_uploaded has a row for its (country,
\* region) key in the dedup mapping, and total_uploaded grows for a batch only
\* once the upsert of that batch has committed.
C1_CountedHasMapping ==
    /\ \A f \in counted : FileKey(f) \in mappings
    /\ stats.total_uploaded # statsAtTake.total_uploaded => upsertResult = "ok"
    /\ stats.total_uploaded > 0 => counted # {}

C1_Witness ==
    /\ ppc = "done"
    /\ presult = "Ok"
    /\ stats.total_uploaded >= 2
    /\ Cardinality(counted) >= 2

\* C2: when the batch upsert fails, total_uploaded and total_bytes_uploaded
\* stay what they were when the batch was taken, whatever the puts returned,
\* and the publish run returns the database error.
C2_UpsertFailureCountsNothing ==
    upsertResult = "failed" =>
        /\ stats.total_uploaded = statsAtTake.total_uploaded
        /\ stats.total_bytes_uploaded = statsAtTake.total_bytes_uploaded
        /\ ppc = "done"
        /\ presult = "DatabaseError"

C2_Witness ==
    /\ upsertResult = "failed"
    /\ Len(batch) = BatchSize
    /\ \A i \in DOMAIN results : results[i] = "ok"
    /\ presult = "DatabaseError"

OkItems == { i \in DOMAIN batch : results[i] = "ok" }

FailedItems == { i \in DOMAIN batch : results[i] = "fail" }

RECURSIVE BytesOf(_)
BytesOf(I) ==
    IF I = {} THEN 0
    ELSE LET i == CHOOSE j \in I : TRUE
         IN  FileBytes(batch[i].file_path) + BytesOf(I \ {i})

RowsOf(I) == { <<batch[i].country_code, batch[i].locality_id>> : i \in I }

\* C16: a batch of n items with f failed puts and a successful upsert raises
\* total_uploaded by n-f, total_failed by f and total_bytes_uploaded by the
\* sizes of the n-f uploaded files, and the upsert writes the rows of exactly
\* the n-f uploaded items.
C16_BatchAccounting ==
    [][ /\ (ppc = "upload" /\ upsertResult' = "ok") =>
              mappings' = mappings \cup RowsOf(OkItems)
        /\ (ppc = "count_failed" /\ ppc' # "count_failed" /\ upsertResult = "ok") =>
              /\ stats'.total_uploaded =
                    statsAtTake.total_uploaded + Len(batch) - Cardinality(FailedItems)
              /\ stats'.total_failed =
                    statsAtTake.total_failed + Cardinality(FailedItems)
              /\ stats'.total_bytes_uploaded =
                    statsAtTake.total_bytes_uploaded + BytesOf(OkItems)
              /\ RowsOf(OkItems) \subseteq mappings' ]_vars

C16_Witness ==
    /\ ppc \in {"scan", "done"}
    /\ upsertResult = "ok"
    /\ Len(batch) = BatchSize
    /\ Cardinality(FailedItems) = 1
    /\ stats.total_uploaded = statsAtTake.total_uploaded + BatchSize - 1
    /\ stats.total_failed = statsAtTake.total_failed + 1
    /\ RowsOf(OkItems) \subseteq mappings
    /\ RowsOf(FailedItems) \cap mappings = {}

\* C18: the batch upsert is all or nothing: after the call every tuple of the
\* batch is a row of the mapping, or, on error, the mapping is what it was
\* before; a processed batch with a successful upload makes exactly one upsert
\* call, which carries all its successes, and a batch without one makes none.
C18_UpsertAllOrNothing ==
    [][ /\ upsertCalls' # upsertCalls /\ upsertCalls' # <<>> =>
              /\ upsertCalls' = <<RowsOf(OkItems)>>
              /\ \/ upsertResult' = "ok" /\ RowsOf(OkItems) \subseteq mappings'
                 \/ upsertResult' = "failed" /\ mappings' = mappings
        /\ mappings' # mappings => Len(upsertCalls') = Len(upsertCalls) + 1
        /\ (ppc = "upload" /\ ppc' # "upload") =>
              Len(upsertCalls') = IF OkItems = {} THEN 0 ELSE 1
        /\ (ppc \in {"count_ok", "count_failed"}) => upsertCalls' = upsertCalls ]_vars

C18_Witness ==
    /\ upsertResult = "failed"
    /\ Cardinality(OkItems) = BatchSize
    /\ upsertCalls = <<RowsOf(OkItems)>>
    /\ RowsOf(OkItems) \cap mappings = {}

\* C19: process_all_localities returns an error only when a batch upsert has
\* failed; no failure of the scan, of a file name, of a Catalog or dedup
\* query or of an upload makes it return an error.
C19_OnlyUpsertFailureAborts ==
    presult \notin {"none", "Ok"} => upsertResult = "failed"

\* C20: a file whose name is no region identifier is an error for that file
\* only: it is not enqueued, the scan goes on with the other files and
\* directories, and the queued uploads are drained; so a run that met no
\* failed query and no failed upsert ends with every directory and file
\* visited and an empty queue.
C20_MalformedNameStopsOnlyThatFile ==
    /\ enqueued \subseteq ValidNames
    /\ (ppc = "done" /\ ~queryFailed /\ upsertResult # "failed") =>
          /\ dirs = {}
          /\ unscanned = {}
          /\ upload_queue = <<>>

-----------------------------------------------------------------------------
(* Properties of the downloader, checked under SpecDownload, SpecDownloadFair
   and SpecCrash *)

\* C4: the destination path never holds a partially downloaded file.
C4_DestinationNeverPartial ==
    (destination.exists /\ destination # dest0) => destination.data = RemoteFile

\* C8: with a temp file of size S > 0 and a server that honors range requests
\* and advertises the total, the attempt asks for bytes S-, writes the body
\* after the S bytes it keeps, and the file renamed to destination is the
\* whole remote file.
C8_ResumeWithRange ==
    (server.range /\ server.length) =>
        /\ (dpc \in {"stream", "rename"} /\ existing_size > 0) =>
              /\ req_range = existing_size
              /\ start_byte = existing_size
              /\ IsPrefix(temp.data, RemoteFile)
              /\ Len(temp.data) = downloaded
        /\ (dpc = "ok" /\ existing_size > 0) =>
              /\ Len(destination.data) = FileSize
              /\ destination.data = RemoteFile

C8_Witness ==
    /\ server.range
    /\ server.length
    /\ dpc = "ok"
    /\ existing_size > 0
    /\ start_byte = existing_size
    /\ destination = FileOf(RemoteFile)

\* C9: with a temp file of size S > 0 and a server that ignores the Range
\* header and answers 200 with the full length, the attempt drops the S bytes,
\* writes from byte 0, and the final file has the advertised size.
C9_RestartWithoutRange ==
    (~server.range /\ server.length) =>
        /\ (dpc \in {"stream", "rename"} /\ existing_size > 0) =>
              /\ req_range = existing_size
              /\ start_byte = 0
              /\ IsPrefix(temp.data, RemoteFile)
              /\ Len(temp.data) = downloaded
        /\ (destination.exists /\ destination # dest0) =>
              Len(destination.data) = FileSize

C9_Witness ==
    /\ ~server.range
    /\ server.length
    /\ dpc = "ok"
    /\ existing_size > 0
    /\ start_byte = 0
    /\ destination = FileOf(RemoteFile)

\* C10: an attempt succeeds only if the resumed prefix plus the bytes received
\* make up the whole file; a short transfer is never handed to the rename.
C10_SuccessOnlyIfComplete ==
    dpc = "rename" => (downloaded = FileSize /\ Len(temp.data) = FileSize)

Returned == dpc \in {"ok", "err"}

C11_AttemptBound ==
    /\ attempts <= MAX_RETRIES
    /\ dpc = "err" => attempts = MAX_RETRIES
    /\ dpc = "attempt" => sleeps = attempts
    /\ dpc \in {"stream", "failed", "sleep", "rename", "ok", "err"} =>
          sleeps = attempts - 1

C11_Steps ==
    /\ dpc = "rename" => dpc' = "ok"
    /\ (dpc' = "ok" /\ dpc # "ok") => (dpc = "rename" /\ attempts' = attempts)
    /\ sleeps' # sleeps => (dpc = "sleep" /\ dpc' = "attempt")
    /\ (dpc' = "sleep" /\ dpc # "sleep") => dpc = "failed"
    /\ (dpc' = "err" /\ dpc # "err") => (dpc = "failed" /\ attempts = MAX_RETRIES)

C12_TempKeptUntilLastFailure ==
    [][ /\ (dpc = "failed" /\ attempt < MAX_RETRIES) => temp' = temp
        /\ dpc = "sleep" => (temp' = temp /\ dpc' = "attempt")
        /\ (dpc = "attempt" /\ dpc' # "attempt" /\ attempt > 1) =>
              existing_size' = ExistingSize(temp)
        /\ (temp.exists /\ ~temp'.exists) =>
              \/ dpc = "rename"
              \/ dpc = "failed" /\ attempt = MAX_RETRIES /\ dpc' = "err"
        /\ (dpc' = "err" /\ dpc # "err") =>
              (~temp'.exists /\ destination' = dest0) ]_vars

C12_Witness ==
    /\ dpc = "err"
    /\ dest0 = OldFile
    /\ destination = OldFile
    /\ start_byte > 0
    /\ ~temp.exists

\* C13: when the process was terminated before the rename, with any number of
\* bytes in the temp file, a later call against a server that honors ranges
\* and advertises the total, with no transport failure, returns Ok and leaves
\* the whole file at the destination.
C13_LaterCallCompletes ==
    (calls > 1 /\ server.range /\ server.length /\ ~faulty /\ Returned) =>
        /\ dpc = "ok"
        /\ Len(destination.data) = FileSize

-----------------------------------------------------------------------------
(* Properties of the extraction scheduler, checked under SpecExtract *)

PreexistingRegions == { k \in RegionKeys : OutFile(k[1], k[2]) \in preexisting }

Running == { k \in RegionKeys : task[k] = "tool" }

\* C5: the extraction tool is never launched for a region whose output file
\* existed before the call, and the progress counter of a country starts at
\* the number of such regions of the country.
C5_ExistingNeverReextracted ==
    /\ invoked \cap PreexistingRegions = {}
    /\ (xpc = "join" /\ \A r \in Catalog[cur] : task[<<cur, r>>] = "waiting") =>
          completed_count = Cardinality({ k \in PreexistingRegions : k[1] = cur })

C5_Witness ==
    /\ xpc = "done"
    /\ xresult = "Ok"
    /\ \E k \in PreexistingRegions : task[k] = "ok"
    /\ \E k \in invoked : k[1] = "ZZ" /\ task[k] = "ok"

\* C6: at most max_concurrent_extractions subprocesses run at any moment.
C6_BoundedConcurrency == Cardinality(Running) <= maxConc

C6_Witness ==
    /\ maxConc = MaxPermits
    /\ Cardinality(Running) = maxConc
    /\ \E k \in RegionKeys : task[k] = "waiting"

\* C7: when the result of a country is decided, every task of the country has
\* finished, the tool was launched for every region that had no output file,
\* and the country failed exactly when one of its tasks failed.
C7_FailureDoesNotCancelSiblings ==
    \A c \in Countries :
        countryResult[c] # "none" =>
            /\ \A r \in Catalog[c] : task[<<c, r>>] \in {"ok", "err"}
            /\ \A r \in Catalog[c] :
                 <<c, r>> \notin PreexistingRegions => <<c, r>> \in invoked
            /\ countryResult[c] = "failed" <=> (\E r \in Catalog[c] : task[<<c, r>>] = "err")
            /\ countryResult[c] = "failed" => xresult = "ExtractionFailed"

C7_Witness ==
    /\ countryResult["ZZ"] = "failed"
    /\ task[<<"ZZ", 1>>] = "err"
    /\ task[<<"ZZ", 2>>] = "ok"
    /\ task[<<"ZZ", 3>>] = "ok"
    /\ {<<"ZZ", 2>>, <<"ZZ", 3>>} \subseteq invoked

-----------------------------------------------------------------------------
(* Properties of the UploadQueue, checked under SpecQueue *)

\* C14: add_upload on a queue that has reached the hard capacity returns an
\* error and leaves the queue as it is, so the queue never holds more than the
\* hard capacity, whatever the sequence of add_upload and take_batch calls.
C14_QueueNeverExceedsCapacity ==
    /\ [](Len(upload_queue) <= MaxQueueSize)
    /\ [][ (added' = added + 1 /\ Len(upload_queue) >= MaxQueueSize) =>
              (addResult' = "err" /\ upload_queue' = upload_queue) ]_vars

C14_Witness ==
    /\ qop = "add"
    /\ addResult = "err"
    /\ Len(upload_queue) = MaxQueueSize

MinOf(a, b) == IF a < b THEN a ELSE b

\* C15: take_batch removes from the queue and returns its first
\* min(len, batch trigger size) items and leaves the others queued; no
\* PendingUpload is returned by two take_batch calls, and none is in the queue
\* and in a batch at once.
C15_TakeBatchMovesItemsOnce ==
    /\ [][ qop' = "take" =>
              /\ Len(batch') = MinOf(Len(upload_queue), BatchSize)
              /\ batch' \o upload_queue' = upload_queue
              /\ Len(upload_queue) <= BatchSize => upload_queue' = <<>> ]_vars
    /\ [](\A k \in 1..MaxAdds : returned[k] <= 1)
    /\ [](ItemIds(upload_queue) \cap ItemIds(batch) = {})

C15_Witness ==
    /\ qop = "take"
    /\ Len(batch) = BatchSize
    /\ upload_queue # <<>>
    /\ \E k \in 1..MaxAdds : returned[k] = 1 /\ k \notin ItemIds(batch)

-----------------------------------------------------------------------------
(* Properties of a whole run, checked under SpecPipeline *)

RegionsOf(c) == { k \in RegionKeys : k[1] = c }

OutputsOf(c) == { OutFile(k[1], k[2]) : k \in RegionsOf(c) }

\* the output tree held nothing but output files of Catalog regions
CleanTree == preexisting \subseteq { OutFile(k[1], k[2]) : k \in RegionKeys }

ExtractedAll == xpc = "done" /\ xresult = "Ok" /\ CleanTree

PublishedAll ==
    /\ ExtractedAll
    /\ ppc = "done"
    /\ mappedAtStart = {}
    /\ ~queryFailed
    /\ stats.total_failed = 0
    /\ upsertResult # "failed"

\* C17: for a country with n Catalog regions of which k outputs pre-exist,
\* with a tool and stores that never fail and no mapping beforehand, the
\* extraction launches the tool n-k times and leaves the n files on disk, and
\* the publish run that follows enqueues the n files, counts n uploads and
\* leaves n mapping rows for the country.
C17_EndToEnd ==
    \A c \in {"ZZ", "AA"} :
        LET n == Cardinality(RegionsOf(c))
            k == Cardinality(OutputsOf(c) \cap preexisting)
        IN  /\ ExtractedAll =>
                /\ Cardinality(invoked \cap RegionsOf(c)) = n - k
                /\ OutputsOf(c) \subseteq disk
            /\ PublishedAll =>
                /\ presult = "Ok"
                /\ { f \in enqueued : f.cc = c } = OutputsOf(c)
                /\ { f \in counted : f.cc = c } = OutputsOf(c)
                /\ { m \in mappings : m[1] = c } = RegionsOf(c)
                /\ Cardinality({ m \in mappings : m[1] = c }) = n

C17_Witness ==
    /\ PublishedAll
    /\ Cardinality(OutputsOf("ZZ") \cap preexisting) = 1
    /\ Cardinality(invoked \cap RegionsOf("ZZ")) = 2
    /\ Cardinality({ m \in mappings : m[1] = "ZZ" }) = 3
    /\ stats.total_uploaded = 4

-----------------------------------------------------------------------------
(* Properties of publish runs that follow each other, checked under SpecRerun *)

UploadedByTwin(f) ==
    \E g \in PublishFiles \ {f} :
        FileKey(g) = FileKey(f) /\ putCount[g] = 1 /\ g \notin putFailed

C21_InRun ==
    /\ \A f \in PublishFiles : putCount[f] <= 1
    /\ \A f \in putFailed :
         /\ f \notin counted
         /\ FileKey(f) \in mappings => UploadedByTwin(f)
    /\ (ppc = "done" /\ presult = "Ok") => \A f \in enqueued : putCount[f] = 1

C21_NextRunScan ==
    \A f \in failedPrev :
        (ppc = "scan" /\ f \in unscanned /\ f \notin unscanned'
            /\ FileKey(f) \notin mappings /\ ~queryFailed')
        => f \in enqueued'

AllValidMapped == \A f \in ValidFiles : FileKey(f) \in mappings

\* C22: over publish runs repeated on an unchanged output tree, every put and
\* every upsert succeeding in the end (SpecConverge) and no query failing,
\* every valid file has a row from some point on, and a run that starts with
\* all of them mapped uploads nothing.
C22_RerunsConverge ==
    []~queryFailed =>
        /\ <>[]AllValidMapped
        /\ []((\A f \in ValidFiles : FileKey(f) \in mappedAtStart) => NoPuts)

(* Properties of two publish runs at once, checked under SpecTwoRuns *)

\* both runs have been started and have returned
BothReturned == peer # NoRun /\ ppc = "done" /\ peer.ppc = "done"

\* the two runs, as RunState records
BothRuns == {RunState, peer}

OneRowPerKey == \A r1 \in rows : \A r2 \in rows : r1.key = r2.key => r1 = r2

\* a run returns no error but for a malformed name of the tree, a query of
\* its own that failed or an upsert of its own that the store failed
OwnErrorsOnly(s) ==
    /\ s.presult = "QueueError" => \E f \in disk : ParseU32(f.name) = -1
    /\ s.presult = "DatabaseError" => (s.queryFailed \/ s.lost # {})

C24_FailedCountryLeavesLaterOnes ==
    (xpc = "done" /\ xresult = "ExtractionFailed") => country_codes = <<>>

\* C25: when the Catalog query of the region list fails for a country, the
\* same extract_localities call goes on with the remaining country codes: it
\* returns only when none is left.
C25_CatalogFailureLeavesLaterOnes ==
    (xpc = "done" /\ cur \in Countries /\ xresult = "DatabaseError")
        => country_codes = <<>>

\* C28: the progress counter of a country starts at the number of regions
\* whose file exists, goes up once for each region extracted successfully
\* among the others and not for the existing ones: when all tasks have
\* joined it is the existing count plus the newly succeeded regions, and it
\* never exceeds the number of regions of the country.
C28_ProgressCounter ==
    xpc = "join" =>
        /\ completed_count <= Cardinality(Catalog[cur])
        /\ AllJoined(task, cur) =>
              completed_count =
                  Cardinality({ k \in PreexistingRegions : k[1] = cur })
                  + Cardinality({ k \in invoked : k[1] = cur /\ task[k] = "ok" })

\* C27: for a region whose output file did not exist, extract_locality
\* returns Ok exactly when the subprocess was launched, exited with status
\* zero and the output file exists afterwards; after a launch failure, a
\* non-zero exit or a missing output file it returns ExtractionFailed with the
\* identifier of that region.
C27_RegionResult ==
    \A k \in invoked :
        task[k] \in {"ok", "err"} =>
            /\ task[k] = "ok" <=>
                  (outcome[k].tool = "zero" /\ outcome[k].output
                     /\ OutFile(k[1], k[2]) \in disk)
            /\ task[k] = "err" <=>
                  \/ outcome[k].tool = "nolaunch"
                  \/ outcome[k].tool = "nonzero"
                  \/ outcome[k].tool = "zero" /\ ~outcome[k].output
            /\ task[k] = "err" => outcome[k].err = k[2]
            /\ task[k] = "ok" => outcome[k].err = -1

\* the three kinds of failure and a success have happened in one call
C27_Witness ==
    /\ \E k \in invoked : task[k] = "err" /\ outcome[k].tool = "nolaunch"
    /\ \E k \in invoked : task[k] = "err" /\ outcome[k].tool = "nonzero"
    /\ \E k \in invoked : task[k] = "err" /\ outcome[k].tool = "zero"
    /\ \E k \in invoked : task[k] = "ok"

(* Properties of the whole run, checked under SpecPipelineFair *)

ExtractionErrors ==
    {"PlanetLocationNotConfigured", "PlanetFileNotFound", "DatabaseError",
     "ExtractionFailed"}

ExtractFailed == xpc = "done" /\ xresult \in ExtractionErrors

\* C26: when extract_localities has returned an error, the run goes on:
\* process_all_localities is called over the files that exist and returns,
\* and the run fails exactly when process_all_localities returned an error.
C26_ExtractionErrorNotFatal ==
    /\ [](ExtractFailed /\ ppc = "idle" => ENABLED PStart)
    /\ [][ExtractFailed /\ ppc = "idle" /\ ppc' # "idle"
            => ppc' = "scan" /\ dirs' = DirsOf(disk) /\ disk' = disk]_vars
    /\ [](ExtractFailed =>
            /\ RunResult \in {"none", "Ok", "QueueError", "DatabaseError"}
            /\ RunResult = "Ok" <=> (ppc = "done" /\ presult = "Ok"))
    /\ (ExtractFailed ~> (ExtractFailed /\ ppc = "done" /\ RunResult = presult))

\* the extraction failed, the publish run uploaded files and the run is Ok
C26_Witness ==
    /\ ExtractFailed
    /\ ppc = "done"
    /\ RunResult = "Ok"
    /\ stats.total_uploaded > 0

(* process_upload_queue called on any queue: SpecDrain *)

\* Largest queue process_upload_queue is called on (bound of the model).
MaxDrainItems == 3

\* the sequences of at most n different elements of S
Arrangements(S, n) ==
    { q \in UNION { [1..m -> S] : m \in 0..n } :
        \A i \in DOMAIN q : \A j \in DOMAIN q : i # j => q[i] # q[j] }

\* A service whose queue holds the uploads of some files, none uploaded yet,
\* at the call of process_upload_queue
InitDrain ==
    /\ IdleDownload
    /\ IdleExtract
    /\ IdleQueue
    /\ IdleRoundTrip
    /\ IdleLocks
    /\ \E q \in Arrangements(ValidNames, MaxDrainItems) :
         /\ disk = { q[i] : i \in DOMAIN q }
         /\ upload_queue = [i \in DOMAIN q |-> Pending(q[i], KeyOf[q[i]][2])]
         /\ enqueued = { q[i] : i \in DOMAIN q }
    /\ mappings = {}
    /\ rows = {}
    /\ stats = NewStats
    /\ ppc = "drain"
    /\ ret = "final"
    /\ dirs = {}
    /\ curdir = ""
    /\ unscanned = {}
    /\ batch = <<>>
    /\ results = <<>>
    /\ upsertResult = "none"
    /\ presult = "none"
    /\ run = 1
    /\ counted = {}
    /\ putCount = [f \in PublishFiles |-> 0]
    /\ scannedMapped = {}
    /\ mappedAtStart = {}
    /\ statsAtTake = NewStats
    /\ queryFailed = FALSE
    /\ upsertCalls = <<>>
    /\ putFailed = {}
    /\ failedPrev = {}
    /\ putOk = {}
    /\ lost = {}
    /\ peer = NoRun

\* the steps of one process_upload_queue call
NextDrain ==
    \/ PTakeBatch
    \/ \E i \in 1..BatchSize : PUpload(i)
    \/ PUpsert
    \/ PCountUploaded
    \/ PCountFailed

SpecDrain == InitDrain /\ [][NextDrain]_vars

\* process_upload_queue is called on an empty queue
EmptyDrain == ppc = "drain" /\ upload_queue = <<>>

\* C29: process_upload_queue on an empty queue takes an empty batch, leaves
\* the queue empty and returns at once: no put, no upsert, the dedup store
\* and the UploadStats as they were.
C29_EmptyDrainNoEffect ==
    /\ [](EmptyDrain => TakeBatch(upload_queue).batch = <<>>)
    /\ [][EmptyDrain =>
            /\ batch' = <<>>
            /\ upload_queue' = <<>>
            /\ ppc' = Return(ret)
            /\ stats' = stats
            /\ putCount' = putCount
            /\ upsertCalls' = <<>>
            /\ mappings' = mappings
            /\ rows' = rows ]_vars
    /\ []((ppc = "done" /\ batch = <<>>) =>
            /\ NoPuts
            /\ stats = NewStats
            /\ mappings = {}
            /\ presult = "Ok")

\* the call on an empty queue has returned
C29_Witness ==
    /\ ppc = "done"
    /\ batch = <<>>
    /\ enqueued = {}
    /\ presult = "Ok"
    /\ stats = NewStats

(* The queue during a publish run, checked under SpecPublish *)

\* a drain called from the scan gives the control back to the scan
BackToScan == ppc # "scan" /\ ppc' = "scan" /\ run' = run

\* C30: an enqueue that brings the queue to its batch trigger size is
\* followed at once by the drain of a batch, which is uploaded, upserted and
\* counted before the next file is scanned; so the queue never exceeds the
\* trigger size, is below it whenever a file is scanned, never reaches its
\* hard capacity, and add_upload never rejects.
C30_QueueStaysBelowTrigger ==
    /\ [](Len(upload_queue) <= BatchSize /\ Len(upload_queue) < MaxQueueSize)
    /\ [](ppc = "scan" =>
            /\ Len(upload_queue) < BatchSize
            /\ \A f \in ValidNames :
                 QueueAdd(upload_queue, Pending(f, KeyOf[f][2])).ok)
    /\ [][(ppc = "scan" /\ Len(upload_queue') > Len(upload_queue)
              /\ Len(upload_queue') >= BatchSize)
            => ppc' = "drain" /\ ret' = "scan"]_vars
    /\ [][(ppc = "drain" /\ ret = "scan")
            => Len(batch') = BatchSize /\ upload_queue' = <<>>]_vars
    /\ [][BackToScan =>
            /\ ppc = "count_failed"
            /\ \A i \in DOMAIN results : results[i] # "wait"
            /\ Successful(batch, results) # <<>> =>
                  /\ upsertResult = "ok"
                  /\ \A i \in DOMAIN batch :
                        results[i] = "ok" => batch[i].file_path \in counted
            /\ stats'.total_uploaded + stats'.total_failed
                 >= statsAtTake.total_uploaded + 1 ]_vars

\* a full batch was drained and counted, and the scan has enqueued a file since
C30_Witness ==
    /\ ppc = "scan"
    /\ Cardinality(counted) = BatchSize
    /\ Len(upload_queue) = 1
    /\ upload_queue[1].file_path \notin counted

\* C31: when process_all_localities returns Ok the upload queue is empty and
\* every upload enqueued during the run was taken into a batch and had its
\* put attempted, once.
C31_OkLeavesQueueEmpty ==
    (ppc = "done" /\ presult = "Ok") =>
        /\ upload_queue = <<>>
        /\ \A f \in enqueued : putCount[f] = 1
        /\ \A f \in PublishFiles : putCount[f] > 0 => f \in enqueued

\* a run returned Ok after a drain at the trigger size and a last, partial one
C31_Witness ==
    /\ ppc = "done"
    /\ presult = "Ok"
    /\ Cardinality(enqueued) = BatchSize + 1
    /\ Len(batch) = 1
    /\ upload_queue = <<>>

\* the files whose name parses to an identifier the Catalog does not hold
NotInCatalog ==
    { f \in PublishFiles :
        KeyOf[f][2] # -1 /\ \A c \in Countries : KeyOf[f][2] \notin Catalog[c] }

\* C32: a file whose identifier is not in the Catalog is skipped: it is not
\* enqueued, not put, no row is written for it, and the scan goes on with
\* the next file.
C32_UnknownRegionSkipped ==
    /\ [](\A f \in NotInCatalog :
             /\ f \notin enqueued
             /\ putCount[f] = 0
             /\ FileKey(f) \notin mappings
             /\ \A i \in DOMAIN upload_queue : upload_queue[i].file_path # f)
    /\ [][\A f \in NotInCatalog :
             (ppc = "scan" /\ f \in unscanned /\ f \notin unscanned')
             => /\ ppc' = "scan"
                /\ presult' = presult
                /\ upload_queue' = upload_queue
                /\ unscanned' = unscanned \ {f}
                /\ dirs' = dirs ]_vars

\* a file unknown to the Catalog was passed over and a later file uploaded
C32_Witness ==
    /\ ppc = "done"
    /\ presult = "Ok"
    /\ \E f \in NotInCatalog \cap disk :
          /\ putCount[f] = 0
          /\ \E g \in counted : g.cc = f.cc

\* C33: no duplicate is enqueued: the upload queue never holds, and a run
\* never enqueues, two uploads with the same (country_code, region) key, also
\* when two file names of a directory parse to the same identifier.
C33_NoDuplicateEnqueued ==
    /\ \A i \in DOMAIN upload_queue : \A j \in DOMAIN upload_queue :
          i # j => RowKey(upload_queue[i]) # RowKey(upload_queue[j])
    /\ \A f \in enqueued : \A g \in enqueued : f # g => FileKey(f) # FileKey(g)

(* The locks of the publish service, checked under SpecLocks *)

\* C34: neither the queue lock nor the stats lock is held while a Catalog
\* query, a dedup query, the puts or the upsert are in flight; a lock is never
\* asked for while it is held, so a run is never stuck in front of a lock;
\* and no lock is held when the run has returned.
C34_LocksNotHeldAcrossIO ==
    /\ lpc \in InFlight => (~queue_lock /\ ~stats_lock)
    /\ lpc \in QueueLockCalls => ~queue_lock
    /\ lpc \in StatsLockCalls => ~stats_lock
    /\ queue_lock <=> lpc \in {"add", "full", "empty", "take"}
    /\ stats_lock <=> lpc \in {"inc_ok", "inc_fail", "final"}
    /\ lpc # "done" => ENABLED NextLocks

\* a drain started from the enqueue path has its puts in flight, no lock held
C34_Witness ==
    /\ lpc = "put"
    /\ lret = "scan"
    /\ lbatch = BatchSize
    /\ ~queue_lock
    /\ ~stats_lock

(* The source of the extraction, checked under SpecExtract *)

\* the state of an extraction before its first country: no Catalog query, no
\* task, no subprocess, nothing written
NothingStarted ==
    /\ Len(country_codes) >= 2
    /\ cur = "ZZ"
    /\ task = [k \in RegionKeys |-> "none"]
    /\ invoked = {}
    /\ disk = preexisting
    /\ countryResult = [c \in Countries |-> "none"]
    /\ outcome = [k \in RegionKeys |-> NoOutcome]

\* C35: with the source location unset, or a local path that does not exist,
\* extract_localities returns PlanetLocationNotConfigured, PlanetFileNotFound,
\* as its first step and nothing has been started: no Catalog query, no task,
\* no subprocess; with an http(s) URL the first step goes on to the countries
\* whatever is at the URL, and never returns one of these two errors.
C35_SourceCheckedFirst ==
    /\ [](/\ (planet = "unset" /\ xpc # "start") =>
                (/\ xpc = "done"
                 /\ xresult = "PlanetLocationNotConfigured"
                 /\ NothingStarted)
          /\ (planet = "missing" /\ xpc # "start") =>
                (/\ xpc = "done"
                 /\ xresult = "PlanetFileNotFound"
                 /\ NothingStarted)
          /\ planet = "remote" =>
                xresult \notin {"PlanetLocationNotConfigured",
                                "PlanetFileNotFound"})
    /\ [][(xpc = "start" /\ planet = "remote") => xpc' = "next"]_vars

\* a call with a missing local source has returned, regions being in the Catalog
C35_Witness ==
    /\ planet = "missing"
    /\ xpc = "done"
    /\ xresult = "PlanetFileNotFound"
    /\ Catalog[Head(country_codes)] # {}

(* The totals of a publish run, checked under SpecPublish *)

\* C36: when a publish run has returned Ok, total_uploaded + total_failed is
\* the number of items the run has put in the queue: every item was counted
\* once, as uploaded or as failed.
C36_EveryEnqueuedCounted ==
    (ppc = "done" /\ presult = "Ok") =>
        stats.total_uploaded + stats.total_failed = Cardinality(enqueued)

\* an Ok run with a success and a failure among its items
C36_Witness ==
    /\ ppc = "done"
    /\ presult = "Ok"
    /\ stats.total_uploaded > 0
    /\ stats.total_failed > 0
    /\ stats.total_uploaded + stats.total_failed = Cardinality(enqueued)

(* Regions reported as failed, checked under SpecExtractAgain *)

\* C37: a region whose extraction was last reported as failed is not taken as
\* complete by a later extract_localities call: its task does not return Ok
\* on the existence of a file the failed subprocess left, and once the call
\* has looked at the region's country the region is extracted again or
\* reported again.
C37_FailedRegionNotComplete ==
    \A k \in RegionKeys :
        outcome[k].err # -1 => task[k] # "ok"

(* Termination of the extraction, checked under SpecExtract *)

\* C38: extract_localities is never stuck: as long as the call has not
\* returned, some step of it can be taken (a task can get a permit, a
\* subprocess can exit, the tasks can be joined), whatever the number of
\* permits of the semaphore, 0 included; so the call returns once every
\* subprocess has exited.
C38_ExtractionNeverStuck ==
    xpc # "done" => ENABLED NextExtract

(* The identifier in the file name, checked under SpecRoundTrip *)

\* C39: the stem of the file that extraction names after a region identifier
\* of the Catalog is parsed by the publish scan, and to the same identifier.
C39_FileNameRoundTrip ==
    rpc = "scanned" => (rparsed.ok /\ AsI64(rparsed) = rid)

====
